---- MODULE Spec2Model ----
(***************************************************************************)
(* Lesson player: slide Navigator (showSlide / attachNavigation / init),   *)
(* Instruction Gate (handleInstructionForSlide and friends) and the SCORM  *)
(* progress adapter (ensureScormConnection / persistScormProgress /        *)
(* markLessonComplete / commitAndExitScorm) of src/unnamed/part_000; the   *)
(* audio manager (ensureEntry / play / stopAll) and the playback sequence  *)
(* of a slide (runSequence, onLeave) of src/unnamed/part_001, with the     *)
(* per-segment playEntry of src/unnamed/part_004; the listening slide     *)
(* with pause and resume of src/MT/E/lesson_02/lib/listening-2.js, the     *)
(* practice slide (runPractice) of src/unnamed/part_005, the lesson        *)
(* builder (buildLessonSlides) and the slide ids of the activity builders. *)
(***************************************************************************)
EXTENDS Integers, Sequences, FiniteSets, TLC

\* ---------------------------------------------------------------- bounds
\* Largest number of slides a lesson document produces in the model.
MaxSlides == 2
\* Largest number of leaked (never cleared) countdown intervals tracked.
MaxStale == 1
\* Largest slide count passed to the adapter when it is driven directly.
MaxTotal == 2
\* Longest text the LMS holds as lesson location when the session opens.
MaxText == 2

\* F applied to the value of x, the value being computed once however
\* often F uses it.
Bind(x, F(_)) == CHOOSE r \in {F(v) : v \in {x}} : TRUE

\* ------------------------------------------------------------- JS values
\* JS null / undefined for a numeric field (real values are >= 0).
Null == -1
\* JS NaN as the result of Number.parseInt.
NaN == -2
\* A JS number that is not an integer (1.5).
Fractional == -3

\* Number.isInteger
IsInteger(v) == v \notin {Null, NaN, Fractional}

\* Characters of the strings the LMS stores: the digits 0..9 stand for
\* themselves, the other codes are a letter, a blank and a minus sign.
ChX == 10
ChSpace == 11
ChMinus == 12

IsDigit(c) == c \in 0..9

\* String.prototype.trim
RECURSIVE TrimLeft(_)
TrimLeft(s) ==
  IF s # <<>> /\ Head(s) = ChSpace THEN TrimLeft(Tail(s)) ELSE s

RECURSIVE TrimRight(_)
TrimRight(s) ==
  IF s # <<>> /\ s[Len(s)] = ChSpace
    THEN TrimRight(SubSeq(s, 1, Len(s) - 1))
    ELSE s

Trim(s) == TrimRight(TrimLeft(s))

\* The value of the longest prefix of decimal digits, acc being the value
\* read so far and seen telling whether a digit was read.
RECURSIVE DigitsPrefix(_, _, _)
DigitsPrefix(s, acc, seen) ==
  IF s # <<>> /\ IsDigit(Head(s))
    THEN DigitsPrefix(Tail(s), acc * 10 + Head(s), TRUE)
    ELSE IF seen THEN acc ELSE NaN

\* Number.parseInt(value, 10)
ParseInt(s) ==
  LET t == TrimLeft(s)
  IN IF t # <<>> /\ Head(t) = ChMinus
       THEN LET m == DigitsPrefix(Tail(t), 0, FALSE)
            IN IF m = NaN THEN NaN ELSE 0 - m
       ELSE DigitsPrefix(t, 0, FALSE)

\* String(index) for a non-negative integer
RECURSIVE StringOf(_)
StringOf(n) ==
  IF n < 10 THEN <<n>> ELSE StringOf(n \div 10) \o <<n % 10>>

\* safeParseIndex applied to a string read from the LMS
safeParseIndex(value) ==
  IF Trim(value) # <<>>
    THEN LET parsed == ParseInt(value)
         IN IF parsed # NaN /\ parsed >= 0 THEN parsed ELSE Null
    ELSE Null

\* safeParseIndex applied to the number (or missing value) found in the
\* suspend-data payload
safeParseNumber(value) ==
  IF value = Null THEN Null ELSE IF value < 0 THEN 0 ELSE value

\* ------------------------------------------------------ suspend payloads
\* cmi.suspend_data: an empty string, an unparsable string, or the JSON
\* text of the payload object.
EmptySuspend ==
  [kind |-> "empty", currentSlide |-> Null, totalSlides |-> Null,
   completed |-> FALSE]

BadSuspend ==
  [kind |-> "invalid", currentSlide |-> Null, totalSlides |-> Null,
   completed |-> FALSE]

\* JSON.stringify(payload), the timestamp left out
SuspendJson(index, total, done) ==
  [kind |-> "json", currentSlide |-> index, totalSlides |-> total,
   completed |-> done]

\* readSuspendPayload: {} unless the text parses
readSuspendPayload(raw) ==
  IF raw.kind = "json" THEN raw ELSE EmptySuspend

\* ------------------------------------------------------------ the state
VARIABLES
  content,             \* the lesson document init() has fetched
  pc,                  \* "loading" until init() has run, then "ready",
                       \* "exited" when the page is going away
  lms,                 \* the LMS host and what it stores
  scormState,          \* the adapter's scormState object
  slides,              \* the slide descriptors built from the lesson
  currentSlideIndex,   \* the Navigator's cursor (0-based)
  navigationAttached,  \* attachNavigation has run
  navButtons,          \* whether prevBtn and nextBtn are disabled
  lateRejection,       \* the page runs the rejection of a paused play()
                       \* after later events of the learner
  isActive,            \* indices of the slides carrying class is-active
  entered,             \* slides whose onEnter is more recent than onLeave
  slideState,          \* per slide: flags, button and running sequence
  instructionPlayback, \* the gate controller in flight, or NoController
  staleTimers,         \* armed intervals of controllers no longer current
  completionWrites,    \* terminal writes that ran to their save()
  lastCall,            \* the handler the last step executed
  events,              \* hooks and gate calls of that handler, in order
  lmsLog,              \* LMS calls of that handler, in order
  playback,            \* the audio manager: cache, active set, play() calls
  sequence             \* the run of a slide's playback sequence

vars ==
  <<content, pc, lms, scormState, slides, currentSlideIndex,
    navigationAttached, navButtons, lateRejection, isActive, entered,
    slideState, instructionPlayback, staleTimers,
    completionWrites, lastCall, events, lmsLog, playback, sequence>>

audioVars == <<playback, sequence>>

navVars ==
  <<content, slides, currentSlideIndex, navigationAttached, navButtons,
    lateRejection, isActive, entered, slideState, instructionPlayback,
    staleTimers>>

\* ------------------------------------------------------ the LMS session
\* One call on the pipwerks SCORM object.
SetCall(key, val) == [op |-> "set", key |-> key, val |-> val, threw |-> FALSE]
GetCall(key) == [op |-> "get", key |-> key, val |-> Null, threw |-> FALSE]
SaveCall == [op |-> "save", key |-> "", val |-> Null, threw |-> FALSE]
QuitCall == [op |-> "quit", key |-> "", val |-> Null, threw |-> FALSE]
InitCall == [op |-> "init", key |-> "", val |-> Null, threw |-> FALSE]

\* The effect of one call that returns normally.  A terminated session
\* ignores set and save.
ApplyCall(store, c) ==
  IF c.op = "set" /\ ~store.terminated
    THEN IF c.key = "status" THEN [store EXCEPT !.status = c.val]
         ELSE IF c.key = "location" THEN [store EXCEPT !.location = c.val]
         ELSE IF c.key = "suspend" THEN [store EXCEPT !.suspend = c.val]
         ELSE [store EXCEPT !.exit = c.val]
  ELSE IF c.op = "quit" THEN [store EXCEPT !.terminated = TRUE]
  ELSE IF c.op = "init" THEN [store EXCEPT !.initCalls = @ + 1]
  ELSE store

RECURSIVE ApplyCalls(_, _)
ApplyCalls(store0, calls) ==
  Bind(store0, LAMBDA store :
    IF calls = <<>> THEN store
    ELSE ApplyCalls(ApplyCall(store, Head(calls)), Tail(calls)))

\* The body of a try block: the calls run in order until call number fail
\* throws (fail = 0: none throws).  The result is the store and the log.
Thrown(calls, fail) == fail \in 1..Len(calls)

TryCalls(store, calls0, fail) ==
  Bind(calls0, LAMBDA calls :
    IF Thrown(calls, fail)
      THEN [store |-> ApplyCalls(store, SubSeq(calls, 1, fail - 1)),
            log |-> SubSeq(calls, 1, fail - 1)
                      \o <<[calls[fail] EXCEPT !.threw = TRUE]>>]
      ELSE [store |-> ApplyCalls(store, calls), log |-> calls])

\* ----------------------------------------------------------- the adapter
\* The adapter's functions take and return a world w: the scormState
\* object, the LMS store, the calls logged so far and the count of
\* terminal writes.

\* ensureScormConnection attempting again after a failed attempt
ConnectionCachedIfConnected(scorm) == scorm.connected

\* The test of ensureScormConnection for an attempt already made
ConnectionCached(scorm) == scorm.attemptedInit

\* ensureScormConnection preferring the suspend data to the location
ResumeCandidateSuspendFirst(fromLocation, fromSuspend) ==
  IF fromSuspend # Null THEN fromSuspend
  ELSE IF fromLocation # Null THEN fromLocation
  ELSE 0

\* fromLocation ?? fromSuspend ?? 0
ResumeCandidate(fromLocation, fromSuspend) ==
  IF fromLocation # Null THEN fromLocation
  ELSE IF fromSuspend # Null THEN fromSuspend
  ELSE 0

\* ensureScormConnection; fail names the call of its try block that throws:
\* 1 get status, 2 set status, 3 get location, 4 get suspend_data.
ensureScormConnection(w0, fail) ==
  Bind(w0, LAMBDA w :
    IF ConnectionCached(w.scorm) THEN w
    ELSE IF w.lms.host = "missing"
      THEN [w EXCEPT !.scorm.attemptedInit = TRUE]
    ELSE IF w.lms.host = "initFails"
      THEN [w EXCEPT !.scorm.attemptedInit = TRUE,
                     !.lms = ApplyCall(@, InitCall),
                     !.log = @ \o <<InitCall>>]
    ELSE
      LET status == w.lms.status
          done == status \in {"completed", "passed"}
          fresh == status \in {"", "not attempted", "unknown"}
          calls == <<GetCall("status")>>
                     \o (IF ~done /\ fresh
                           THEN <<SetCall("status", "incomplete")>> ELSE <<>>)
                     \o <<GetCall("location"), GetCall("suspend")>>
          \* position in calls of the call that throws, 0 if none
          at == IF fail = 1 THEN 1
                ELSE IF fail = 2 THEN (IF ~done /\ fresh THEN 2 ELSE 0)
                ELSE IF fail \in {3, 4} THEN (IF ~done /\ fresh THEN fail ELSE fail - 1)
                ELSE 0
          threw == at # 0
          gotStatus == at # 1
          fromLocation == safeParseIndex(w.lms.location)
          suspendPayload == readSuspendPayload(w.lms.suspend)
          fromSuspend == safeParseNumber(suspendPayload.currentSlide)
          resumeCandidate == ResumeCandidate(fromLocation, fromSuspend)
      IN Bind(TryCalls(ApplyCall(w.lms, InitCall), calls, at), LAMBDA r :
           [w EXCEPT
              !.scorm.attemptedInit = TRUE,
              !.scorm.connected = TRUE,
              !.scorm.completionRecorded = IF gotStatus /\ done THEN TRUE ELSE @,
              !.scorm.lastSavedTotal =
                 IF ~threw /\ suspendPayload.totalSlides # Null
                   THEN suspendPayload.totalSlides ELSE @,
              !.scorm.resumeIndex = IF threw THEN 0 ELSE resumeCandidate,
              !.scorm.exitRegistered = TRUE,
              !.lms = [r.store EXCEPT
                         !.statusAtConnect = IF gotStatus THEN status ELSE @],
              !.log = @ \o <<InitCall>> \o r.log]))

\* getResumeSlideIndex
Min(a, b) == IF a < b THEN a ELSE b
Max(a, b) == IF a > b THEN a ELSE b

\* getResumeSlideIndex returning the stored index as it is
getResumeSlideIndexUnclamped(scorm, totalSlides) == scorm.resumeIndex

getResumeSlideIndex(scorm, totalSlides) ==
  IF ~scorm.connected \/ ~IsInteger(totalSlides) \/ totalSlides <= 0 THEN 0
  ELSE IF ~IsInteger(scorm.resumeIndex) THEN 0
  ELSE Max(0, Min(totalSlides - 1, scorm.resumeIndex))

\* persistScormProgress marking the lesson incomplete on every write
ProgressCallsAlways(index, normalizedTotal, done) ==
  <<SetCall("location", StringOf(index)),
    SetCall("suspend", SuspendJson(index, normalizedTotal, done)),
    SetCall("exit", "suspend"), SetCall("status", "incomplete"), SaveCall>>

\* The calls of the try block of persistScormProgress
ProgressCalls(index, normalizedTotal, done) ==
  <<SetCall("location", StringOf(index)),
    SetCall("suspend", SuspendJson(index, normalizedTotal, done))>>
  \o (IF ~done
        THEN <<SetCall("exit", "suspend"), SetCall("status", "incomplete")>>
        ELSE <<>>)
  \o <<SaveCall>>

\* persistScormProgress writing without a session
UsableAlways(scorm) == TRUE

\* ensureScormConnection() && scormState.api
Usable(scorm) == scorm.connected

\* persistScormProgress taking every write for redundant
RedundantWriteAlways(scorm, index, normalizedTotal) == TRUE

\* The test of persistScormProgress for a write that changes nothing
RedundantWrite(scorm, index, normalizedTotal) ==
  /\ scorm.lastSavedIndex = index
  /\ scorm.lastSavedTotal = normalizedTotal
  /\ ~scorm.completionRecorded

\* persistScormProgress(index, totalSlides); failE is for the connection it
\* may open, fail for its own try block.
persistScormProgress(w0, index, totalSlides, failE, fail) ==
  Bind(ensureScormConnection(w0, failE), LAMBDA w :
    LET normalizedTotal == IF totalSlides > 0 THEN totalSlides ELSE Null
        calls == ProgressCalls(index, normalizedTotal,
                               w.scorm.completionRecorded)
    IN IF ~Usable(w.scorm) THEN w
       ELSE IF index < 0 THEN w
       ELSE IF RedundantWrite(w.scorm, index, normalizedTotal) THEN w
       ELSE Bind(TryCalls(w.lms, calls, fail), LAMBDA r :
              [w EXCEPT !.scorm.lastSavedIndex = index,
                        !.scorm.resumeIndex = index,
                        !.scorm.lastSavedTotal = normalizedTotal,
                        !.lms = r.store,
                        !.log = @ \o r.log]))

\* markLessonComplete without its test of completionRecorded
CompletionDueAlways(scorm) == scorm.connected

\* The guard of markLessonComplete: a session is connected and completion
\* has not been recorded.
CompletionDue(scorm) == scorm.connected /\ ~scorm.completionRecorded

\* markLessonComplete(index, totalSlides)
markLessonComplete(w0, index, totalSlides, failE, fail) ==
  Bind(ensureScormConnection(w0, failE), LAMBDA w :
    LET calls == <<SetCall("status", "completed"),
                   SetCall("exit", "normal"),
                   SetCall("location", StringOf(index)),
                   SetCall("suspend", SuspendJson(index, totalSlides, TRUE)),
                   SaveCall>>
    IN IF ~CompletionDue(w.scorm) THEN w
       ELSE Bind(TryCalls(w.lms, calls, fail), LAMBDA r :
              [w EXCEPT
                 !.scorm.completionRecorded = TRUE,
                 !.scorm.resumeIndex = index,
                 !.lms = r.store,
                 !.log = @ \o r.log,
                 !.writes = IF Thrown(calls, fail) THEN @ ELSE Min(@ + 1, 3)]))

\* commitAndExitScorm without its test of quitting
ExitDoneIfDisconnected(scorm) == ~scorm.connected

\* The guard of commitAndExitScorm: there is no session, or it is being
\* closed already.
ExitDone(scorm) == ~scorm.connected \/ scorm.quitting

\* commitAndExitScorm: save and quit, each in its own try block; failSave
\* and failQuit tell whether the call throws.
commitAndExitScorm(w0, failSave, failQuit) ==
  Bind(w0, LAMBDA w :
    IF ExitDone(w.scorm) THEN w
    ELSE Bind(TryCalls(w.lms, <<SaveCall>>, IF failSave THEN 1 ELSE 0),
           LAMBDA s :
         Bind(TryCalls(s.store, <<QuitCall>>, IF failQuit THEN 1 ELSE 0),
           LAMBDA q :
             [w EXCEPT !.scorm.quitting = TRUE,
                       !.lms = q.store,
                       !.log = @ \o s.log \o q.log])))

World == [scorm |-> scormState, lms |-> lms, log |-> <<>>,
          writes |-> completionWrites]

\* ------------------------------------------------------ slide descriptors
\* A slide descriptor as the builders produce it: audio tells whether the
\* resolved instructions carry an audio clip (instructionAudio), auto
\* whether the slide has an autoPlay record with a button and a trigger
\* (the listening slide); a slide without one is the placeholder slide.
SlideKinds == [audio : BOOLEAN, auto : BOOLEAN]

\* The slide at a 0-based index.
SlideAt(sl, i) == sl[i + 1]

\* Per slide: the flags _autoTriggered and _instructionComplete of the
\* slide descriptor, which the gate reads and writes, the builder's own
\* autoTriggered, the play button's disabled attribute and whether a
\* sequence runs (sequenceAbort is set).  The builder writes its
\* _autoTriggered and _instructionComplete to the section element, which
\* is another object than the descriptor and which nothing reads.
FreshSlide ==
  [autoTriggered |-> FALSE, instructionComplete |-> FALSE,
   closureTriggered |-> FALSE, btnDisabled |-> FALSE, running |-> FALSE,
   pendingPlay |-> FALSE]

\* runSequence as far as the button goes: the run is started and the play
\* button disabled until the run ends.
runSequenceStart(st) == [st EXCEPT !.running = TRUE, !.btnDisabled = TRUE]

\* startSequence of the listening slide
startSequence(st) ==
  runSequenceStart([st EXCEPT !.closureTriggered = TRUE])

\* A trigger that starts nothing
triggerAutoPlayNever(st) == st

\* triggerAutoPlay of the listening slide
triggerAutoPlay(st) == IF st.closureTriggered THEN st ELSE startSequence(st)

\* onLeave of a slide: the listening slide aborts its run, enables its
\* button and resets its own autoTriggered and the flags of the section
\* element; the descriptor's flags stay as they are.  The placeholder
\* slide's onLeave does nothing.
slideOnLeave(kind, st) ==
  IF kind.auto
    THEN [st EXCEPT !.closureTriggered = FALSE, !.btnDisabled = FALSE,
                    !.running = FALSE]
    ELSE st

\* --------------------------------------------------- the Instruction Gate
\* The controller object of a gate session.  interval is the remaining
\* count of the interval controller.countdownInterval refers to (0: none
\* armed), leaked the remaining count of an armed interval the controller
\* no longer refers to (0: none).
NoController ==
  [slide |-> Null, audio |-> "none", interval |-> 0, leaked |-> 0,
   buttonLocked |-> FALSE, buttonWasDisabled |-> FALSE, manual |-> FALSE]

Hook(name, i) == [e |-> name, slide |-> i]

\* A controller that leaves the button as the gate locked it
restoreButtonNever(ctl, ss) == ss

\* restoreButton of a controller
restoreButton(ctl, ss) ==
  IF ctl.buttonLocked
    THEN [ss EXCEPT ![ctl.slide + 1].btnDisabled = ctl.buttonWasDisabled]
    ELSE ss

\* cleanupInstructionController on the gate state g = [ip, ss, stale, ev]:
\* the audio is paused, the interval the controller refers to cleared, the
\* click handler removed and the button restored.  An interval the
\* controller does not refer to stays armed.
\* pause() rejects the play() of a clip that is still loading; where the
\* page runs that rejection late, it is pending from here on.
cleanupInstructionController(ctl, g0) ==
  Bind(g0, LAMBDA g :
    [g EXCEPT !.ss = [restoreButton(ctl, g.ss) EXCEPT
                        ![ctl.slide + 1].pendingPlay =
                          @ \/ (lateRejection /\ ctl.audio = "loading")],
              !.stale = IF ctl.leaked > 0 THEN Min(@ + 1, MaxStale) ELSE @])

\* stopInstructionPlayback
stopInstructionPlayback(g0) ==
  Bind(g0, LAMBDA g :
    IF g.ip = NoController THEN g
    ELSE cleanupInstructionController(g.ip,
           [g EXCEPT !.ip = NoController,
                     !.ev = @ \o <<Hook("gateStop", g.ip.slide)>>]))

\* startInstructionCountdown(controller), controller being g.ip
startInstructionCountdown(sl, g0) ==
  Bind(g0, LAMBDA g :
    LET ctl == g.ip
        i == ctl.slide
    IN IF g.ip = NoController THEN g
       ELSE IF ~SlideAt(sl, i).auto \/ g.ss[i + 1].autoTriggered
         THEN cleanupInstructionController(ctl,
                [g EXCEPT !.ss[i + 1].instructionComplete = TRUE,
                          !.ip = NoController,
                          !.ev = @ \o <<Hook("gateRelease", i)>>])
       ELSE [g EXCEPT
               !.ss = restoreButton(ctl, g.ss),
               !.ip.buttonLocked = FALSE,
               !.ip.interval = 5,
               !.ip.leaked = IF ctl.interval > 0 THEN ctl.interval ELSE @,
               !.stale = IF ctl.interval > 0 /\ ctl.leaked > 0
                           THEN Min(@ + 1, MaxStale) ELSE @,
               !.ev = @ \o <<Hook("countdown", i)>>])

\* The gate without a listener for the end or the failure of the clip
onEndedIgnored(sl, i, g0) == g0

\* onEnded of the controller of slide i (the ended and error listener and
\* the handler of a rejected play())
onEnded(sl, i, g0) ==
  Bind(g0, LAMBDA g :
    IF g.ip = NoController \/ g.ip.slide # i THEN g
    ELSE IF ~SlideAt(sl, i).auto
      THEN Bind(cleanupInstructionController(g.ip,
                  [g EXCEPT !.ip = NoController,
                            !.ev = @ \o <<Hook("gateRelease", i)>>]),
             LAMBDA h : [h EXCEPT !.ss[i + 1].instructionComplete = TRUE])
    ELSE startInstructionCountdown(sl, [g EXCEPT !.ip.audio = "over"]))

\* onEnded of the controller of a session of slide i that was torn down,
\* called by the catch handler of its play(): the test of the session in
\* course compares the slide, and beginCountdown calls
\* startInstructionCountdown with the controller of the old session, which
\* returns when that is not the controller in course.
lateOnEnded(sl, i, g0) ==
  Bind(g0, LAMBDA g :
    IF g.ip = NoController \/ g.ip.slide # i THEN g
    ELSE IF ~SlideAt(sl, i).auto
      THEN Bind(cleanupInstructionController(g.ip,
                  [g EXCEPT !.ip = NoController,
                            !.ev = @ \o <<Hook("gateRelease", i)>>]),
             LAMBDA h : [h EXCEPT !.ss[i + 1].instructionComplete = TRUE])
    ELSE g)

\* The controller handleInstructionForSlide creates for slide i
NewController(kind, i, btnDisabled) ==
  [NoController EXCEPT
     !.slide = i,
     !.buttonLocked = kind.auto,
     !.buttonWasDisabled = kind.auto /\ btnDisabled,
     !.manual = kind.auto,
     !.audio = IF kind.audio THEN "loading" ELSE "none"]

\* handleInstructionForSlide(slides[i]); blocked tells whether play() is
\* rejected at once (no permission to play), in which case onEnded runs
\* when the handler has returned.
handleInstructionForSlide(sl, i, blocked, g00) ==
  Bind(g00, LAMBDA g0 :
    LET kind == SlideAt(sl, i)
    IN IF g0.ss[i + 1].instructionComplete THEN g0
       ELSE IF ~kind.audio /\ ~kind.auto
         THEN [g0 EXCEPT !.ss[i + 1].instructionComplete = TRUE]
       ELSE Bind(stopInstructionPlayback(g0), LAMBDA g :
              Bind([g EXCEPT
                      !.ip = NewController(kind, i, g.ss[i + 1].btnDisabled),
                      !.ss[i + 1].btnDisabled = IF kind.auto THEN TRUE ELSE @,
                      !.ev = @ \o <<Hook("gateStart", i)>>],
                LAMBDA started :
                  IF ~kind.audio THEN startInstructionCountdown(sl, started)
                  ELSE IF blocked
                    THEN onEnded(sl, i, [started EXCEPT !.ip.audio = "over"])
                  ELSE started)))

\* The interval callback when the count of the ticking interval reaches 0:
\* the interval the controller refers to is cleared, the session cleaned
\* up and the slide's trigger invoked.
countdownElapsed(sl, tickedLeaked, g0) ==
  Bind(g0, LAMBDA g :
    LET ctl == g.ip
        i == ctl.slide
        \* a ticking interval the controller does not refer to stays armed
        left == [ctl EXCEPT !.interval = 0,
                            !.leaked = IF tickedLeaked THEN 1 ELSE @]
    IN Bind(cleanupInstructionController(left,
              [g EXCEPT !.ip = NoController,
                        !.ev = @ \o <<Hook("gateRelease", i)>>]),
         LAMBDA h :
           LET st == h.ss[i + 1]
               fired == IF ~st.autoTriggered
                          THEN triggerAutoPlay([st EXCEPT !.autoTriggered = TRUE])
                          ELSE st
           IN [h EXCEPT
                 !.ss[i + 1] = [fired EXCEPT !.instructionComplete = TRUE],
                 !.ev = IF ~st.autoTriggered
                          THEN @ \o <<Hook("trigger", i)>> ELSE @]))

\* ----------------------------------------------------------- the Navigator
\* The Navigator's state as one record, so that init can run showSlide
\* as part of its own step.
Nav ==
  [slides |-> slides, cur |-> currentSlideIndex, isActive |-> isActive,
   entered |-> entered, btn |-> navButtons,
   g |-> [ip |-> instructionPlayback, ss |-> slideState,
          stale |-> staleTimers, ev |-> <<>>],
   w |-> World, noop |-> FALSE]

\* prevBtn and nextBtn as the page has them before init(): enabled
InitButtons == [prev |-> FALSE, next |-> FALSE]

\* An init() that leaves the buttons as they are
DisabledButtonsKept == InitButtons

\* prevBtn and nextBtn as init() sets them when there is no slide
DisabledButtons == [prev |-> TRUE, next |-> TRUE]

\* showSlide wrapping around instead of clamping
ClampWrap(i, n) == i % n

\* The index showSlide resolves nextIndex to
Clamp(i, n) == Max(0, Min(n - 1, i))

\* showSlide without its re-entry guard
AlreadyActiveNever(nav, idx) == FALSE

\* The re-entry guard of showSlide
AlreadyActive(nav, idx) == idx = nav.cur /\ idx \in nav.isActive

\* showSlide leaving the current slide active
DeactivateKeep(active, cur) == active

\* The slides left active when the current slide is deactivated
Deactivate(active, cur) == active \ {cur}

\* showSlide entering the next slide before it leaves the current one
TransitionHooksSwapped(cur, idx) == <<Hook("enter", idx), Hook("leave", cur)>>

\* The hooks of a transition in the order showSlide calls them
TransitionHooks(cur, idx) == <<Hook("leave", cur), Hook("enter", idx)>>

\* An adapter function without its catch block: the exception of a call
\* that throws travels on to the caller.
EscapesIfThrown(before, after) ==
  \E k \in (Len(before) + 1)..Len(after) : after[k].threw

\* Whether an exception leaves the adapter function whose LMS calls extend
\* the log from before to after: the catch blocks let none out.
Escapes(before, after) == FALSE

\* showSlide reporting completion on every slide
IsLastSlideAny(idx, n) == TRUE

\* The test of showSlide for the last slide
IsLastSlide(idx, n) == idx = n - 1

\* showSlide(nextIndex).  blocked: play() of the instruction clip is
\* rejected at once; failP and failC: the call that throws in the progress
\* write and in the completion write (0: none).
showSlide(nav0, nextIndex, blocked, failP, failC) ==
  Bind(nav0, LAMBDA nav :
    LET n == Len(nav.slides)
        idx == Clamp(nextIndex, n)
        cur == nav.cur
        reports == <<Hook("persist", idx)>>
                     \o (IF IsLastSlide(idx, n) THEN <<Hook("complete", idx)>> ELSE <<>>)
    IN IF n = 0 THEN [nav EXCEPT !.noop = TRUE]
       ELSE Bind(stopInstructionPlayback(nav.g), LAMBDA g1 :
         IF AlreadyActive(nav, idx)
           THEN [nav EXCEPT !.g = g1, !.noop = TRUE]
         ELSE
           \* the current slide is deactivated and its onLeave called, the
           \* next slide activated, its onEnter called and its gate started
           Bind(handleInstructionForSlide(nav.slides, idx, blocked,
                  [g1 EXCEPT
                     !.ss[cur + 1] = slideOnLeave(SlideAt(nav.slides, cur), @),
                     !.ev = @ \o TransitionHooks(cur, idx)]),
             LAMBDA g3 :
           Bind(persistScormProgress(nav.w, idx, n, 0, failP), LAMBDA w1 :
           Bind(IF IsLastSlide(idx, n) /\ ~Escapes(nav.w.log, w1.log)
                  THEN markLessonComplete(w1, idx, n, 0, failC)
                  ELSE w1,
             LAMBDA w2 :
               [nav EXCEPT
                  !.cur = idx,
                  !.isActive = Deactivate(@, cur) \cup {idx},
                  !.entered = Deactivate(@, cur) \cup {idx},
                  !.btn = [prev |-> idx = 0, next |-> idx = n - 1],
                  !.g = [g3 EXCEPT
                           !.ev = @ \o (IF Escapes(nav.w.log, w1.log)
                                          THEN <<Hook("persist", idx),
                                                 Hook("uncaught", idx)>>
                                        ELSE IF Escapes(w1.log, w2.log)
                                          THEN reports
                                                 \o <<Hook("uncaught", idx)>>
                                        ELSE reports)],
                  !.w = w2])))))

\* The variables take the values of a Navigator record.
Install(nav) ==
  /\ slides' = nav.slides
  /\ currentSlideIndex' = nav.cur
  /\ isActive' = nav.isActive
  /\ entered' = nav.entered
  /\ navButtons' = nav.btn
  /\ UNCHANGED <<content, lateRejection>>
  /\ instructionPlayback' = nav.g.ip
  /\ slideState' = nav.g.ss
  /\ staleTimers' = nav.g.stale
  /\ events' = nav.g.ev
  /\ scormState' = nav.w.scorm
  /\ lms' = nav.w.lms
  /\ lmsLog' = nav.w.log
  /\ completionWrites' = nav.w.writes
  /\ UNCHANGED audioVars

\* The record of a handler call: its name and argument, whether it
\* returned through an early return, and the adapter's completion flag and
\* the Navigator's cursor when it was called.
Call(op, arg, noop) ==
  [op |-> op, arg |-> arg, noop |-> noop,
   done |-> scormState.completionRecorded, from |-> currentSlideIndex]

\* Failure points of the LMS calls of one handler: a write makes at most
\* five calls.  0: no call throws.
FailPoints == 0..5

\* ------------------------------------------------------ the audio manager
\* Largest number of play() calls made on the audio manager when it is
\* driven directly.
MaxPlays == 2
\* Number of segments of a slide's playback sequence.
MaxSegments == 2
\* Largest number of runs of a slide's sequence.
MaxRuns == 2

\* The clips: the clip of segment k has url k.
Urls == 1..MaxSegments

\* The abort signals: 0 stands for a call without signal, run r of a
\* sequence has signal r.
Signals == 1..MaxRuns

\* A url that is not in the cache
NotCached ==
  [meta |-> "none", playing |-> FALSE, currentTime |-> 0, startedBy |-> 0]

\* new Audio(url) with preload and load(): meta is the state of metaPromise
\* ("loading": pending, "loaded": resolved with the duration, "failed":
\* resolved with 0 by the error event), currentTime 0 the start of the
\* clip and 1 any later position, startedBy the play() call whose
\* audio.play() started the playback in course (0: none).
NewAudio == [NotCached EXCEPT !.meta = "loading"]

\* The audio manager before any call.  calls are the promises play() has
\* returned, in the order of the calls: state is the promise's state,
\* listening tells that the ended and error listeners of the call are on
\* the element, abortable that its abort listener is on the signal,
\* metaWait that its metaPromise.then has not run yet.  fired are the
\* signals that have been aborted.
InitPlayback ==
  [cache |-> [u \in Urls |-> NotCached], active |-> {}, calls |-> <<>>,
   fired |-> {}]

\* ensureEntry(url)
ensureEntry(pb, url) ==
  IF pb.cache[url].meta = "none"
    THEN [pb EXCEPT !.cache[url] = NewAudio] ELSE pb

\* cleanup of play() call k
cleanup(pb, k) ==
  [pb EXCEPT !.calls[k].listening = FALSE,
             !.calls[k].abortable = FALSE,
             !.active = @ \ {pb.calls[k].url}]

\* resolve or reject of the promise of call k: a settled promise stays as
\* it is.
settle(pb, k, outcome) ==
  IF pb.calls[k].state = "pending"
    THEN [pb EXCEPT !.calls[k].state = outcome] ELSE pb

\* audio.pause() and audio.currentTime = 0
pauseAndRewind(pb, url) ==
  [pb EXCEPT !.cache[url].playing = FALSE,
             !.cache[url].startedBy = 0,
             !.cache[url].currentTime = 0]

\* handleEnded of call k
handleEnded(pb, k) == settle(cleanup(pb, k), k, "resolved")

\* handleError of call k
handleError(pb, k) == settle(cleanup(pb, k), k, "rejected")

\* An abort handler that rejects the promise
handleAbortRejects(pb, k) ==
  settle(pauseAndRewind(cleanup(pb, k), pb.calls[k].url), k, "rejected")

\* handleAbort of call k
handleAbort(pb, k) ==
  settle(pauseAndRewind(cleanup(pb, k), pb.calls[k].url), k, "resolved")

\* The chain metaPromise.then(() => audio.play()).catch(() => audio.play())
\* .catch(err => { cleanup(); reject(err) }) of call k, run when
\* metaPromise is resolved: the element plays, or, the clip being broken,
\* both audio.play() are rejected and so is the call.
metaThen(pb0, k) ==
  Bind([pb0 EXCEPT !.calls[k].metaWait = FALSE], LAMBDA pb :
    LET url == pb.calls[k].url
    IN IF pb.cache[url].meta = "loaded"
         THEN [pb EXCEPT !.cache[url].playing = TRUE,
                         !.cache[url].currentTime = 1,
                         !.cache[url].startedBy = k]
         ELSE settle(cleanup(pb, k), k, "rejected"))

\* audioManager.play(url, {signal}); token 0: no signal.  The call is
\* appended to calls.
play(pb0, url, token) ==
  Bind(ensureEntry(pb0, url), LAMBDA pb1 :
    LET k == Len(pb1.calls) + 1
        call == [url |-> url, token |-> token, state |-> "pending",
                 listening |-> FALSE, abortable |-> FALSE,
                 metaWait |-> FALSE]
    IN Bind([pb1 EXCEPT
               !.cache[url].currentTime = IF pb1.cache[url].playing
                                            THEN 1 ELSE 0,
               !.calls = Append(@, call)],
         LAMBDA pb :
           IF token # 0 /\ token \in pb.fired THEN handleAbort(pb, k)
           ELSE Bind([pb EXCEPT !.calls[k].abortable = (token # 0),
                                !.calls[k].listening = TRUE,
                                !.calls[k].metaWait = TRUE,
                                !.active = @ \cup {url}],
                  LAMBDA p :
                    IF p.cache[url].meta \in {"loaded", "failed"}
                      THEN metaThen(p, k) ELSE p)))

\* audioManager.stopAll()
stopAll(pb0) ==
  Bind(pb0, LAMBDA pb :
    [pb EXCEPT
       !.cache = [u \in Urls |->
                    IF u \in pb.active
                      THEN [pb.cache[u] EXCEPT !.playing = FALSE,
                                               !.startedBy = 0,
                                               !.currentTime = 0]
                      ELSE pb.cache[u]],
       !.active = {}])

\* The metaPromise.then of the calls k, k + 1, ... that wait for the
\* metadata of url, in the order of the calls
RECURSIVE runMetaThen(_, _, _)
runMetaThen(pb0, url, k) ==
  Bind(pb0, LAMBDA pb :
    IF k > Len(pb.calls) THEN pb
    ELSE runMetaThen(IF pb.calls[k].url = url /\ pb.calls[k].metaWait
                       THEN metaThen(pb, k) ELSE pb, url, k + 1))

\* The ended (ok) or error (~ok) listeners of the calls k, k + 1, ... on
\* the element of url, in the order of the calls
RECURSIVE dispatch(_, _, _, _)
dispatch(pb0, url, ok, k) ==
  Bind(pb0, LAMBDA pb :
    IF k > Len(pb.calls) THEN pb
    ELSE dispatch(IF pb.calls[k].url = url /\ pb.calls[k].listening
                    THEN IF ok THEN handleEnded(pb, k)
                               ELSE handleError(pb, k)
                    ELSE pb, url, ok, k + 1))

\* The abort listeners of the calls k, k + 1, ... on signal token
RECURSIVE dispatchAbort(_, _, _)
dispatchAbort(pb0, token, k) ==
  Bind(pb0, LAMBDA pb :
    IF k > Len(pb.calls) THEN pb
    ELSE dispatchAbort(IF pb.calls[k].token = token /\ pb.calls[k].abortable
                         THEN handleAbort(pb, k) ELSE pb, token, k + 1))

\* controller.abort() of signal token
abort(pb, token) ==
  IF token \in pb.fired THEN pb
  ELSE dispatchAbort([pb EXCEPT !.fired = @ \cup {token}], token, 1)

\* The loadedmetadata event of the element of url
loadedmetadata(pb, url) ==
  runMetaThen([pb EXCEPT !.cache[url].meta = "loaded"], url, 1)

\* The error event of the element of url: the clip is broken, metaPromise
\* (if pending) is resolved with 0 and the error listeners run.
errorEvent(pb, url) ==
  runMetaThen(
    dispatch([pb EXCEPT !.cache[url].meta = "failed",
                        !.cache[url].playing = FALSE,
                        !.cache[url].startedBy = 0],
             url, FALSE, 1),
    url, 1)

\* The ended event of the element of url
endedEvent(pb, url) ==
  dispatch([pb EXCEPT !.cache[url].playing = FALSE,
                      !.cache[url].startedBy = 0],
           url, TRUE, 1)

\* ------------------------------------------------- the playback sequence
\* The run of the sequence of a slide.  kind tells which builder made the
\* slide: "runSequence" is the listening slide, whose loop awaits play()
\* in one try block and reads sequenceAbort after every await; "playEntry"
\* is the pronunciation slide, whose loop awaits playEntry, which catches
\* the failure of its clip and reads the run's own signal.  status is
\* where the run waits ("idle": no run), idx the segment it is at, call
\* the play() call it awaits, token the signal of sequenceAbort (0: null),
\* signal the signal of the run, runs the number of runs started, text
\* the status line.
InitSequence(kind) ==
  [kind |-> kind, status |-> "idle", idx |-> 0, call |-> 0, token |-> 0,
   signal |-> 0, runs |-> 0, btnDisabled |-> FALSE, text |-> ""]

SequenceKinds == {"runSequence", "playEntry"}

\* The end of a run: its finally block
finish(P, text) ==
  [P EXCEPT !.seq.status = "idle", !.seq.idx = 0, !.seq.call = 0,
            !.seq.signal = 0, !.seq.token = 0, !.seq.btnDisabled = FALSE,
            !.seq.text = text]

RECURSIVE playSegment(_, _)
RECURSIVE afterPlay(_)

\* The run goes on when the promise it awaits is settled.
resume(P0) ==
  Bind(P0, LAMBDA P :
    IF P.seq.status = "awaitPlay" /\ P.pb.calls[P.seq.call].state # "pending"
      THEN afterPlay(P) ELSE P)

\* The loop at segment idx: play() of its clip is called and awaited; past
\* the last segment the run ends.
playSegment(P0, idx) ==
  Bind(P0, LAMBDA P :
    IF idx > MaxSegments THEN finish(P, "complete")
    ELSE Bind(play(P.pb, idx, P.seq.signal), LAMBDA pb :
           resume([P EXCEPT !.pb = pb,
                            !.seq.idx = idx,
                            !.seq.call = Len(pb.calls),
                            !.seq.status = "awaitPlay",
                            !.seq.text = "playing"])))

\* The run after the play() it awaited was rejected: runSequence of the
\* listening slide leaves its loop through the catch block, playEntry
\* catches the error and its caller goes on with the next segment.
afterRejected(P) ==
  IF P.seq.kind = "runSequence" THEN finish(P, "unable")
  ELSE IF P.seq.signal \in P.pb.fired THEN finish(P, "stopped")
  ELSE playSegment([P EXCEPT !.seq.text = "unable"], P.seq.idx + 1)

\* The test after an await: the listening slide reads
\* sequenceAbort.signal.aborted, which throws when onLeave has set
\* sequenceAbort to null; playEntry reads signal.aborted.
leavesLoop(P) ==
  IF P.seq.kind = "runSequence" THEN P.seq.token = 0
  ELSE P.seq.signal \in P.pb.fired

\* The status line a run that left its loop ends with
leftText(P) == IF P.seq.kind = "runSequence" THEN "unable" ELSE "stopped"

\* The run after the play() it awaited is settled
afterPlay(P) ==
  IF P.pb.calls[P.seq.call].state = "rejected" THEN afterRejected(P)
  ELSE IF leavesLoop(P) THEN finish(P, leftText(P))
  ELSE [P EXCEPT !.seq.status = "awaitDelay"]

\* The run after the delay between two segments
afterDelay(P) ==
  IF leavesLoop(P) THEN finish(P, leftText(P))
  ELSE playSegment(P, P.seq.idx + 1)

\* runSequence(): a run in course is aborted, a new signal made, the
\* button disabled and the first segment played.
runSequence(P0) ==
  Bind(P0, LAMBDA P :
    LET r == P.seq.runs + 1
    IN playSegment(
         [P EXCEPT !.pb = IF P.seq.token # 0 THEN abort(@, P.seq.token)
                          ELSE @,
                   !.seq.runs = r, !.seq.token = r, !.seq.signal = r,
                   !.seq.btnDisabled = TRUE],
         1))

\* An onLeave that calls stopAll and does not abort the run
sequenceOnLeaveNoAbort(P0) ==
  Bind(P0, LAMBDA P :
    [P EXCEPT !.pb = stopAll(@),
              !.seq.token = 0, !.seq.text = "", !.seq.btnDisabled = FALSE])

\* onLeave of the slide: the run is aborted, sequenceAbort set to null,
\* stopAll called and the button enabled; the run then goes on from its
\* await and ends.
sequenceOnLeave(P0) ==
  Bind(P0, LAMBDA P :
    Bind([P EXCEPT
            !.pb = stopAll(IF P.seq.token # 0 THEN abort(@, P.seq.token)
                           ELSE @),
            !.seq.token = 0, !.seq.text = "", !.seq.btnDisabled = FALSE],
      LAMBDA Q : IF Q.seq.status = "awaitDelay" THEN afterDelay(Q)
                 ELSE resume(Q)))

\* ------------------------------------------------------------------ Init
\* What an LMS may hold when the page is opened.

InitScormState ==
  [attemptedInit |-> FALSE, connected |-> FALSE, resumeIndex |-> 0,
   completionRecorded |-> FALSE, lastSavedIndex |-> Null,
   lastSavedTotal |-> Null, exitRegistered |-> FALSE, quitting |-> FALSE]

InitLms(host, status, location, suspend) ==
  [host |-> host, status |-> status, location |-> location,
   suspend |-> suspend, exit |-> "", terminated |-> FALSE,
   initCalls |-> 0, statusAtConnect |-> "none"]

\* No host API, a host whose init() fails, and hosts holding a first visit,
\* an interrupted visit and a finished lesson.
InitStores ==
  { InitLms("missing", "", <<>>, EmptySuspend),
    InitLms("initFails", "", <<>>, EmptySuspend),
    InitLms("ok", "", <<>>, EmptySuspend),
    InitLms("ok", "incomplete", <<1>>, SuspendJson(1, 2, FALSE)),
    InitLms("ok", "completed", <<1>>, SuspendJson(1, 2, TRUE)) }

Init ==
  /\ pc = "loading"
  /\ lms \in InitStores
  /\ scormState = InitScormState
  /\ slides = <<>>
  /\ currentSlideIndex = 0
  /\ navigationAttached = FALSE
  /\ content = <<>>
  /\ navButtons = InitButtons
  /\ lateRejection = FALSE
  /\ isActive = {}
  /\ entered = {}
  /\ slideState = <<>>
  /\ instructionPlayback = NoController
  /\ staleTimers = 0
  /\ completionWrites = 0
  /\ lastCall = Call("load", 0, FALSE)
  /\ events = <<>>
  /\ lmsLog = <<>>
  /\ playback = InitPlayback
  /\ sequence = InitSequence("runSequence")

\* --------------------------------------------------------------- actions
\* The lesson documents: the slide descriptors the builders produce.
Lessons == UNION {[1..n -> SlideKinds] : n \in 0..MaxSlides}

\* Whether play() of the instruction clip of the slide showSlide(nextIndex)
\* lands on may be rejected at once.
BlockedChoices(sl, nextIndex) ==
  IF Len(sl) > 0 /\ SlideAt(sl, Clamp(nextIndex, Len(sl))).audio
    THEN BOOLEAN ELSE {FALSE}

\* init() on one of the given lessons, failE in connectFails and
\* <<failP, failC>> in fails:
\* the lesson is fetched and built, the LMS connected, the cursor put on
\* the resume index, the navigation attached and the resume slide shown.
RunInit(lessons, connectFails, fails) ==
  /\ pc = "loading"
  /\ \E lesson \in lessons, failE \in connectFails, blocked \in BOOLEAN,
        fail \in fails :
       \E w \in {ensureScormConnection(World, failE)} :
         LET resumeIndex == IF w.scorm.connected
                              THEN getResumeSlideIndex(w.scorm, Len(lesson))
                              ELSE 0
             nav0 == [Nav EXCEPT
                        !.slides = lesson,
                        !.cur = resumeIndex,
                        !.g.ss = [i \in 1..Len(lesson) |-> FreshSlide],
                        !.w = w]
         IN \E nav \in {IF Len(lesson) > 0
                          THEN showSlide(nav0, resumeIndex, blocked,
                                         fail[1], fail[2])
                          ELSE [nav0 EXCEPT !.btn = DisabledButtons]} :
              /\ Install(nav)
              /\ lastCall' = [Call("init", resumeIndex, nav.noop)
                                EXCEPT !.from = resumeIndex]
  /\ navigationAttached' = TRUE
  /\ pc' = "ready"

\* init(): the lesson is fetched and built, the LMS connected, the cursor
\* put on the resume index, the navigation attached and the resume slide
\* shown, the LMS answering every call.
InitLesson == RunInit(Lessons, {0}, {<<0, 0>>})

\* init() when the lesson content cannot be loaded
InitLessonFails ==
  /\ pc = "loading"
  /\ pc' = "ready"
  /\ slides' = <<>>
  /\ currentSlideIndex' = 0
  /\ lastCall' = Call("initFailed", 0, FALSE)
  /\ events' = <<>>
  /\ lmsLog' = <<>>
  /\ navButtons' = DisabledButtons
  /\ UNCHANGED <<lms, scormState, navigationAttached, isActive, entered,
                 slideState, instructionPlayback, staleTimers,
                 completionWrites, content, lateRejection>>
  /\ UNCHANGED audioVars

\* A call of showSlide(nextIndex) by one of the navigation handlers,
\* <<failP, failC>> in the given set.
NavigateWith(nextIndex, fails) ==
  /\ pc = "ready"
  /\ navigationAttached
  /\ \E blocked \in BlockedChoices(slides, nextIndex), fail \in fails :
       \E nav \in {showSlide(Nav, nextIndex, blocked, fail[1], fail[2])} :
         /\ Install(nav)
         /\ lastCall' = Call("showSlide", nextIndex, nav.noop)
  /\ UNCHANGED <<pc, navigationAttached>>

\* A call of showSlide(nextIndex) by one of the navigation handlers, the
\* LMS accepting every write.
Navigate(nextIndex) == NavigateWith(nextIndex, {<<0, 0>>})

\* The click listener of nextBtn and the ArrowRight key
NextSlide == Navigate(currentSlideIndex + 1)

\* The click listener of prevBtn and the ArrowLeft key
PreviousSlide == Navigate(currentSlideIndex - 1)

\* A step of the gate: the variables take the values of a gate state.
InstallGate(op, i, g0) ==
  /\ \E g \in {g0} :
       /\ instructionPlayback' = g.ip
       /\ slideState' = g.ss
       /\ staleTimers' = g.stale
       /\ events' = g.ev
  /\ lastCall' = Call(op, i, FALSE)
  /\ lmsLog' = <<>>
  /\ UNCHANGED <<pc, lms, scormState, slides, currentSlideIndex,
                 navigationAttached, navButtons, isActive, entered,
                 completionWrites, content, lateRejection>>
  /\ UNCHANGED audioVars

Gate == [ip |-> instructionPlayback, ss |-> slideState,
         stale |-> staleTimers, ev |-> <<>>]

\* The instruction clip starts to play: play() is fulfilled.
AudioPlaying ==
  /\ instructionPlayback.audio = "loading"
  /\ InstallGate("playing", instructionPlayback.slide,
                 [Gate EXCEPT !.ip.audio = "playing"])

\* The ended event of the instruction clip
AudioEnded ==
  /\ instructionPlayback.audio = "playing"
  /\ InstallGate("ended", instructionPlayback.slide,
                 onEnded(slides, instructionPlayback.slide,
                         [Gate EXCEPT !.ip.audio = "over"]))

\* The clip fails: the error event runs onEnded, and when the clip had not
\* started to play the rejection of play() runs onEnded once more.
AudioError ==
  /\ instructionPlayback.audio \in {"loading", "playing"}
  /\ LET i == instructionPlayback.slide
     IN \E g1 \in {onEnded(slides, i, [Gate EXCEPT !.ip.audio = "over"])} :
          InstallGate("error", i,
            IF instructionPlayback.audio = "loading"
              THEN onEnded(slides, i, g1) ELSE g1)

\* The interval callback of the countdown.  Of two armed intervals of one
\* controller the older one runs first.
CountdownTick ==
  /\ instructionPlayback.interval > 0
  /\ LET ctl == instructionPlayback
         tickLeaked == ctl.leaked > 0 /\ ctl.leaked >= ctl.interval
         remaining == (IF tickLeaked THEN ctl.leaked ELSE ctl.interval) - 1
     IN InstallGate("tick", ctl.slide,
          IF remaining > 0
            THEN IF tickLeaked THEN [Gate EXCEPT !.ip.leaked = remaining]
                 ELSE [Gate EXCEPT !.ip.interval = remaining]
            ELSE countdownElapsed(slides, tickLeaked, Gate))

\* A click on the play button of the visible slide: startSequence, then the
\* gate's manualHandler while it is attached.
ClickPlay ==
  /\ pc = "ready"
  /\ currentSlideIndex \in isActive
  /\ LET i == currentSlideIndex
     IN /\ SlideAt(slides, i).auto
        /\ ~slideState[i + 1].btnDisabled
        /\ \E g1 \in {[Gate EXCEPT
                         !.ss[i + 1] = startSequence(slideState[i + 1])]} :
             InstallGate("click", i,
               IF g1.ip # NoController /\ g1.ip.manual /\ g1.ip.slide = i
                 THEN stopInstructionPlayback(
                        [g1 EXCEPT !.ss[i + 1].instructionComplete = TRUE,
                                   !.ss[i + 1].autoTriggered = TRUE])
                 ELSE g1)

\* The sequence of the visible slide has played through.
SequenceEnds ==
  /\ pc = "ready"
  /\ \E i \in 0..(Len(slides) - 1) :
       /\ slideState[i + 1].running
       /\ InstallGate("sequenceEnds", i,
            [Gate EXCEPT !.ss[i + 1].running = FALSE,
                         !.ss[i + 1].btnDisabled = FALSE])

\* beforeunload, unload or pagehide: the handler registered by
\* ensureScormConnection, the LMS answering its calls.  The three events
\* follow each other, so the handler may run again; the page goes away
\* and the navigation handlers run no more.  (What the adapter does when
\* it is called after the exit is the matter of ExitSpec.)
PageExit ==
  /\ pc \in {"ready", "exited"}
  /\ scormState.exitRegistered
  /\ \E w \in {commitAndExitScorm(World, FALSE, FALSE)} :
       /\ scormState' = w.scorm
       /\ lms' = w.lms
       /\ lmsLog' = w.log
  /\ lastCall' = Call("exit", 0, FALSE)
  /\ events' = <<>>
  /\ pc' = "exited"
  /\ UNCHANGED completionWrites
  /\ UNCHANGED navVars
  /\ UNCHANGED audioVars

Next ==
  \/ InitLesson
  \/ InitLessonFails
  \/ NextSlide
  \/ PreviousSlide
  \/ AudioPlaying
  \/ AudioEnded
  \/ AudioError
  \/ CountdownTick
  \/ ClickPlay
  \/ SequenceEnds
  \/ PageExit

Spec == Init /\ [][Next]_vars

\* --------------------------------------- navigation on an LMS that fails
\* The player on an LMS any of whose set and save calls may throw.  The
\* lessons are made of placeholder slides and of listening slides with an
\* instruction clip.
FaultKinds == {[audio |-> FALSE, auto |-> FALSE], [audio |-> TRUE, auto |-> TRUE]}

FaultLessons == UNION {[1..n -> FaultKinds] : n \in 1..MaxSlides}

FaultStores ==
  { InitLms("ok", "", <<>>, EmptySuspend),
    InitLms("ok", "incomplete", <<1>>, SuspendJson(1, 2, FALSE)) }

FaultInit ==
  /\ pc = "loading"
  /\ lms \in FaultStores
  /\ scormState = InitScormState
  /\ slides = <<>>
  /\ currentSlideIndex = 0
  /\ navigationAttached = FALSE
  /\ content = <<>>
  /\ navButtons = InitButtons
  /\ lateRejection = FALSE
  /\ isActive = {}
  /\ entered = {}
  /\ slideState = <<>>
  /\ instructionPlayback = NoController
  /\ staleTimers = 0
  /\ completionWrites = 0
  /\ lastCall = Call("load", 0, FALSE)
  /\ events = <<>>
  /\ lmsLog = <<>>
  /\ playback = InitPlayback
  /\ sequence = InitSequence("runSequence")

\* The calls that throw in the progress write and in the completion write
\* of one showSlide: one of the writes fails, or both at the same call.
FaultPairs ==
  {f \in FailPoints \X FailPoints : f[1] = 0 \/ f[2] = 0 \/ f[1] = f[2]}

FaultInitLesson == RunInit(FaultLessons, 0..4, FaultPairs)

FaultNextSlide == NavigateWith(currentSlideIndex + 1, FaultPairs)

FaultPreviousSlide == NavigateWith(currentSlideIndex - 1, FaultPairs)

FaultNext ==
  \/ FaultInitLesson
  \/ FaultNextSlide
  \/ FaultPreviousSlide

FaultSpec == FaultInit /\ [][FaultNext]_vars

\* ------------------------------------------- the adapter driven directly
\* The adapter's contract holds for any sequence of calls, not only for the
\* ones the Navigator makes: here its functions are called with any
\* arguments, and any call of a write may throw.
AdapterStores ==
  InitStores \cup { InitLms("ok", "passed", <<0>>, BadSuspend) }

\* The calls of the connection that may throw: none once it was attempted.
ConnectFailChoices == IF scormState.attemptedInit THEN {0} ELSE 0..4

\* The slide counts passed: none (0) and the lesson's.
Totals == {0, MaxTotal}

AdapterInit ==
  /\ pc = "adapter"
  /\ lms \in AdapterStores
  /\ scormState = InitScormState
  /\ slides = <<>>
  /\ currentSlideIndex = 0
  /\ navigationAttached = FALSE
  /\ content = <<>>
  /\ navButtons = InitButtons
  /\ lateRejection = FALSE
  /\ isActive = {}
  /\ entered = {}
  /\ slideState = <<>>
  /\ instructionPlayback = NoController
  /\ staleTimers = 0
  /\ completionWrites = 0
  /\ lastCall = Call("load", <<0, 0>>, FALSE)
  /\ events = <<>>
  /\ lmsLog = <<>>
  /\ playback = InitPlayback
  /\ sequence = InitSequence("runSequence")

\* The variables of the adapter take the values of a world.
InstallWorld(op, arg, w0) ==
  /\ \E w \in {w0} :
       /\ scormState' = w.scorm
       /\ lms' = w.lms
       /\ lmsLog' = w.log
       /\ completionWrites' = w.writes
       /\ lastCall' = Call(op, arg, w.log = <<>>)
  /\ events' = <<>>
  /\ UNCHANGED pc
  /\ UNCHANGED navVars
  /\ UNCHANGED audioVars

\* connect()
Connect ==
  /\ pc = "adapter"
  /\ \E failE \in ConnectFailChoices :
       InstallWorld("connect", <<0, 0>>, ensureScormConnection(World, failE))

\* recordProgress(index, totalSlides)
RecordProgress ==
  /\ pc = "adapter"
  /\ \E index \in 0..(MaxTotal - 1), total \in Totals,
        failE \in ConnectFailChoices, fail \in FailPoints :
       InstallWorld("recordProgress", <<index, total>>,
                    persistScormProgress(World, index, total, failE, fail))

\* recordCompletion(index, totalSlides)
RecordCompletion ==
  /\ pc = "adapter"
  /\ \E index \in 0..(MaxTotal - 1), total \in Totals,
        failE \in ConnectFailChoices, fail \in FailPoints :
       InstallWorld("recordCompletion", <<index, total>>,
                    markLessonComplete(World, index, total, failE, fail))

\* ------------------------------------------------- the resume position
\* The adapter opened on an LMS holding any lesson location and suspend
\* data, and asked for the resume index of lessons of any size.
ResumeChars == {0, 2, ChX, ChSpace, ChMinus}

ResumeTexts == UNION {[1..n -> ResumeChars] : n \in 0..MaxText}

\* currentSlide of a stored payload: missing, a negative number, numbers
ResumeSlides == {Null, 0 - 4, 0, 1, 5}

ResumeSuspends ==
  {EmptySuspend, BadSuspend}
    \cup {SuspendJson(c, t, FALSE) : c \in ResumeSlides, t \in {Null, 2}}

ResumeStores ==
  {InitLms("missing", "", <<>>, EmptySuspend),
   InitLms("initFails", "", <<>>, EmptySuspend)}
    \cup {InitLms("ok", st, loc, sus) :
            st \in {"", "incomplete"}, loc \in ResumeTexts,
            sus \in ResumeSuspends}

\* The slide counts getResumeSlideIndex is called with
ResumeTotals == {Fractional, 0 - 4, 0} \cup 1..(MaxTotal + 1)

ResumeInit ==
  /\ pc = "adapter"
  /\ lms \in ResumeStores
  /\ scormState = InitScormState
  /\ slides = <<>>
  /\ currentSlideIndex = 0
  /\ navigationAttached = FALSE
  /\ content = <<>>
  /\ navButtons = InitButtons
  /\ lateRejection = FALSE
  /\ isActive = {}
  /\ entered = {}
  /\ slideState = <<>>
  /\ instructionPlayback = NoController
  /\ staleTimers = 0
  /\ completionWrites = 0
  /\ lastCall = Call("load", <<0, 0>>, FALSE)
  /\ events = <<>>
  /\ lmsLog = <<>>
  /\ playback = InitPlayback
  /\ sequence = InitSequence("runSequence")

\* getResumeIndex(totalSlides); the call records the count and the result
GetResumeIndex ==
  /\ pc = "adapter"
  /\ \E total \in ResumeTotals :
       lastCall' = Call("getResumeIndex",
                        <<total, getResumeSlideIndex(scormState, total)>>,
                        FALSE)
  /\ lmsLog' = <<>>
  /\ events' = <<>>
  /\ UNCHANGED <<pc, lms, scormState, completionWrites>>
  /\ UNCHANGED navVars
  /\ UNCHANGED audioVars

ResumeNext ==
  \/ Connect
  \/ GetResumeIndex

ResumeSpec == ResumeInit /\ [][ResumeNext]_vars

\* ------------------------------------------------- leaving the page
\* flushAndDisconnect(): commitAndExitScorm called at any time, as often as
\* the page fires beforeunload, unload and pagehide.
FlushAndDisconnect ==
  /\ pc = "adapter"
  /\ \E failSave \in BOOLEAN, failQuit \in BOOLEAN :
       InstallWorld("flush", <<0, 0>>,
                    commitAndExitScorm(World, failSave, failQuit))

ExitNext ==
  \/ Connect
  \/ RecordProgress
  \/ FlushAndDisconnect

ExitSpec == AdapterInit /\ [][ExitNext]_vars

AdapterNext ==
  \/ Connect
  \/ RecordProgress
  \/ RecordCompletion

AdapterSpec == AdapterInit /\ [][AdapterNext]_vars

\* ================================================================ claims
\* Positions of the events of the last handler that carry a given name.
At(name) == {k \in DOMAIN events : events[k].e = name}

\* The index showSlide(arg) must land on with n slides.
Landing(arg, n) == IF arg < 0 THEN 0 ELSE IF arg > n - 1 THEN n - 1 ELSE arg

\* The last step was a call of showSlide on a lesson with slides.
Navigated == lastCall.op \in {"showSlide", "init"} /\ Len(slides) > 0

\* C1: with slides, once the lesson is shown exactly one slide is active
\* (entered and not left since, and carrying the active mark) and it is the
\* slide at the current index; without slides no slide is ever active.
C1_SingleActiveSlide ==
  /\ (pc = "ready" /\ Len(slides) > 0) =>
        /\ entered = {currentSlideIndex}
        /\ isActive = {currentSlideIndex}
  /\ Len(slides) = 0 => entered = {} /\ isActive = {}

C1_Witness ==
  /\ lastCall.op = "showSlide"
  /\ ~lastCall.noop
  /\ lastCall.from # currentSlideIndex
  /\ entered = {currentSlideIndex}

\* C2: in a transition the gate session of the slide that is left is
\* stopped and its onLeave called before the onEnter of the slide that is
\* entered, the gate of that slide is started only after its onEnter, a
\* gate session never belongs to a slide other than the current one, and
\* at most one slide is entered.
C2_SerializedTransition ==
  /\ Cardinality(entered) <= 1
  /\ instructionPlayback.slide \in {Null, currentSlideIndex}
  /\ Navigated =>
       /\ Cardinality(At("enter")) <= 1
       /\ \A k \in At("enter") :
            /\ events[k].slide = currentSlideIndex
            /\ \E j \in At("leave") : j < k /\ events[j].slide = lastCall.from
            /\ \A j \in At("gateStop") : j < k
            /\ \A j \in At("gateStart") : j > k /\ events[j].slide = events[k].slide
       /\ \A j \in At("gateStop"), k \in At("leave") : j < k
       /\ (At("gateStart") # {} => At("enter") # {})

C2_Witness ==
  /\ lastCall.op = "showSlide"
  /\ lastCall.from # currentSlideIndex
  /\ At("gateStop") # {}
  /\ At("leave") # {}
  /\ At("enter") # {}
  /\ At("gateStart") # {}
  /\ instructionPlayback.slide = currentSlideIndex

\* Resources of the gate: armed countdown intervals and instruction clips
\* that are playing or about to play.
ArmedIntervals ==
  (IF instructionPlayback.interval > 0 THEN 1 ELSE 0)
  + (IF instructionPlayback.leaked > 0 THEN 1 ELSE 0)
  + staleTimers

ClipsPlaying ==
  IF instructionPlayback.audio \in {"loading", "playing"} THEN 1 ELSE 0

\* C3: at any time at most one gate session exists: at most one instruction
\* clip is playing or one countdown armed, and none of a session that was
\* torn down.
C3_OneGateSession ==
  /\ ArmedIntervals + ClipsPlaying <= 1
  /\ staleTimers = 0

\* C4: a showSlide whose resolved index is the current index while that
\* slide is active leaves the gate session in flight, and with it the
\* play button, as they were.
C4_NoOpKeepsGate ==
  [][(/\ lastCall'.op = "showSlide"
      /\ Len(slides) > 0
      /\ Landing(lastCall'.arg, Len(slides)) = currentSlideIndex
      /\ currentSlideIndex \in isActive)
       => /\ instructionPlayback' = instructionPlayback
          /\ slideState' = slideState]_vars

\* C5: showSlide(i) when the cursor is at the resolved index and that slide
\* is active calls neither onEnter nor onLeave.
C5_NavigationIdempotent ==
  [][(/\ lastCall'.op = "showSlide"
      /\ Len(slides) > 0
      /\ Landing(lastCall'.arg, Len(slides)) = currentSlideIndex
      /\ currentSlideIndex \in isActive)
       => /\ At("enter")' = {}
          /\ At("leave")' = {}
          /\ entered' = entered
          /\ currentSlideIndex' = currentSlideIndex]_vars

C5_Witness ==
  /\ lastCall.op = "showSlide"
  /\ Len(slides) > 1
  /\ Landing(lastCall.arg, Len(slides)) = lastCall.from
  /\ lastCall.arg # lastCall.from
  /\ At("enter") = {}
  /\ At("leave") = {}

\* C6: onLeave is called only on a slide whose onEnter was called with no
\* onLeave since, so the hooks of a slide alternate and begin with onEnter;
\* the first showSlide after initialization calls onEnter only.
C6_HooksAlternate ==
  [][\A k \in At("leave")' : events'[k].slide \in entered]_vars

\* C7: with n > 0 slides the cursor is within 0..n-1, showSlide(i) lands on
\* min(max(i, 0), n-1), and next on the last slide and previous on the
\* first leave the cursor where it is.
C7_CursorInRange ==
  (pc = "ready" /\ Len(slides) > 0) =>
     /\ currentSlideIndex \in 0..(Len(slides) - 1)
     /\ Navigated => currentSlideIndex = Landing(lastCall.arg, Len(slides))
     /\ (lastCall.op = "showSlide" /\ lastCall.from = Len(slides) - 1
           /\ lastCall.arg = lastCall.from + 1)
          => currentSlideIndex = lastCall.from
     /\ (lastCall.op = "showSlide" /\ lastCall.from = 0 /\ lastCall.arg = 0 - 1)
          => currentSlideIndex = 0

C7_Witness ==
  /\ lastCall.op = "showSlide"
  /\ Len(slides) > 1
  /\ lastCall.arg = Len(slides)
  /\ currentSlideIndex = Len(slides) - 1

\* The calls of the last handler that set a key.
SetsOf(key) ==
  {k \in DOMAIN lmsLog : lmsLog[k].op = "set" /\ lmsLog[k].key = key}

NothingThrew == \A k \in DOMAIN lmsLog : ~lmsLog[k].threw

\* Completion was recorded before the last call, or the LMS reported the
\* lesson completed or passed when the session was connected.
WasComplete ==
  lastCall.done \/ lms.statusAtConnect \in {"completed", "passed"}

\* C8: once completion is recorded, in this session or by the LMS at
\* connect, no write sets the status to "incomplete" or the exit marker to
\* "suspend", every progress payload carries completed: true, and a
\* progress write still stores its position.
C8_CompletionMonotonic ==
  WasComplete =>
     /\ \A k \in SetsOf("status") : lmsLog[k].val # "incomplete"
     /\ \A k \in SetsOf("exit") : lmsLog[k].val # "suspend"
     /\ \A k \in SetsOf("suspend") : lmsLog[k].val.completed
     /\ (lastCall.op = "recordProgress" /\ scormState.connected
           /\ NothingThrew)
          => /\ lms.location = <<lastCall.arg[1]>>
             /\ lms.suspend.currentSlide = lastCall.arg[1]
             /\ lms.suspend.completed

C8_Witness ==
  /\ lastCall.op = "recordProgress"
  /\ lastCall.done
  /\ NothingThrew
  /\ lms.status = "completed"
  /\ SetsOf("suspend") # {}
  /\ lms.location = <<lastCall.arg[1]>>

\* C9: the second of two consecutive recordProgress calls with the same
\* index and slide count makes no LMS call, whether completion is recorded
\* or not.
C9_ProgressWriteDedup ==
  [][(/\ lastCall.op = "recordProgress"
      /\ lastCall'.op = "recordProgress"
      /\ lastCall'.arg = lastCall.arg)
       => lmsLog' = <<>>]_vars

\* C10: the terminal write runs to its end at most once, a recordCompletion
\* call made after completion was recorded makes no LMS call, and no
\* terminal write is made when the LMS reported the lesson completed or
\* passed at connect.
C10_CompletionOneShot ==
  /\ completionWrites <= 1
  /\ (lastCall.op = "recordCompletion" /\ lastCall.done) => lmsLog = <<>>
  /\ lms.statusAtConnect \in {"completed", "passed"} =>
       /\ completionWrites = 0
       /\ \A k \in SetsOf("status") : lmsLog[k].val # "completed"

C10_Witness ==
  /\ lastCall.op = "recordCompletion"
  /\ lastCall.done
  /\ completionWrites = 1
  /\ lms.status = "completed"

\* The completion write of the last handler was begun and one of its calls
\* threw.
CompletionWriteFailed ==
  \E k \in SetsOf("status") :
     /\ lmsLog[k].val = "completed"
     /\ \E j \in k..Len(lmsLog) : lmsLog[j].threw

\* C11: when a call of the completion write throws, completion is not
\* taken as recorded and the next recordCompletion attempts the write
\* again.
C11_CompletionRetried ==
  [][(/\ lastCall.op = "recordCompletion"
      /\ CompletionWriteFailed
      /\ lastCall'.op = "recordCompletion")
       => /\ ~scormState.completionRecorded
          /\ \E k \in SetsOf("status")' : lmsLog'[k].val = "completed"]_vars

\* The LMS session is open: connected by the adapter and not terminated.
SessionOpen == scormState.connected /\ ~lms.terminated

\* C12: while the session is open (its writes succeed), the LMS's lesson
\* location and the currentSlide of the suspend data equal the cursor,
\* which is below the totalSlides stored with them, and a navigation that
\* changes the slide makes that write, ending with save, within its own
\* step.
C12_LocationTracksCursor ==
  (pc = "ready" /\ Len(slides) > 0 /\ SessionOpen) =>
     /\ lms.location = StringOf(currentSlideIndex)
     /\ lms.suspend.kind = "json"
     /\ lms.suspend.currentSlide = currentSlideIndex
     /\ lms.suspend.totalSlides = Len(slides)
     /\ currentSlideIndex < lms.suspend.totalSlides
     /\ (Navigated /\ ~lastCall.noop) =>
          /\ \E k \in SetsOf("location") :
               lmsLog[k].val = StringOf(currentSlideIndex)
          /\ \E k \in SetsOf("suspend") :
               lmsLog[k].val.currentSlide = currentSlideIndex
          /\ \E k \in DOMAIN lmsLog :
               /\ lmsLog[k].op = "save"
               /\ \A j \in SetsOf("location") : j < k

C12_Witness ==
  /\ lastCall.op = "showSlide"
  /\ ~lastCall.noop
  /\ lastCall.from # currentSlideIndex
  /\ SessionOpen
  /\ SetsOf("location") # {}
  /\ lms.location = StringOf(currentSlideIndex)
  /\ lms.suspend.currentSlide = currentSlideIndex

\* C13: showSlide reports completion to the adapter exactly when it lands
\* on the last slide, the initial showSlide of init included, and in that
\* call the position is reported, and written, before completion is.
C13_CompletionOnLastSlide ==
  /\ (Navigated /\ ~lastCall.noop) =>
        /\ At("persist") # {}
        /\ At("complete") # {} <=> currentSlideIndex = Len(slides) - 1
        /\ \A k \in At("complete") :
             /\ events[k].slide = Len(slides) - 1
             /\ \E j \in At("persist") :
                  j < k /\ events[j].slide = events[k].slide
        /\ \A k \in SetsOf("status") :
             lmsLog[k].val = "completed" =>
               /\ currentSlideIndex = Len(slides) - 1
               /\ \E j \in DOMAIN lmsLog : j < k /\ lmsLog[j].op = "save"
  /\ ~(Navigated /\ ~lastCall.noop) => At("complete") = {}

C13_Witness ==
  /\ lastCall.op = "showSlide"
  /\ Len(slides) > 1
  /\ currentSlideIndex = Len(slides) - 1
  /\ At("complete") # {}
  /\ \E k \in SetsOf("status") : lmsLog[k].val = "completed"

\* C14: getResumeIndex returns min(max(r, 0), totalSlides - 1) for a
\* connected session with totalSlides >= 1, r being the stored resume
\* index, and 0 when totalSlides is not a positive integer or no session
\* is connected.
C14_ResumeClamped ==
  lastCall.op = "getResumeIndex" =>
     LET total == lastCall.arg[1]
         result == lastCall.arg[2]
         r == scormState.resumeIndex
     IN /\ (scormState.connected /\ total \in 1..(MaxTotal + 1)) =>
             /\ result = (IF r < 0 THEN 0
                          ELSE IF r > total - 1 THEN total - 1 ELSE r)
             /\ result \in 0..(total - 1)
        /\ (~scormState.connected \/ total \notin 1..(MaxTotal + 1)) =>
             result = 0

C14_Witness ==
  /\ lastCall.op = "getResumeIndex"
  /\ scormState.connected
  /\ scormState.resumeIndex > lastCall.arg[1] - 1
  /\ lastCall.arg[1] > 1
  /\ lastCall.arg[2] = lastCall.arg[1] - 1

\* A text without its leading blanks.
Lead(s) ==
  LET k == CHOOSE k \in 1..(Len(s) + 1) :
             /\ \A j \in 1..(k - 1) : s[j] = ChSpace
             /\ (k = Len(s) + 1 \/ s[k] # ChSpace)
  IN SubSeq(s, k, Len(s))

\* The number written by the decimal digits a text begins with.
LeadingNumber(t) ==
  LET n == CHOOSE k \in 0..Len(t) :
             /\ \A j \in 1..k : IsDigit(t[j])
             /\ (k = Len(t) \/ ~IsDigit(t[k + 1]))
      Dec[k \in 0..n] == IF k = 0 THEN 0 ELSE Dec[k - 1] * 10 + t[k]
  IN Dec[n]

\* The text holds a non-negative index: it begins with a digit.
HoldsIndex(s) == Lead(s) # <<>> /\ IsDigit(Head(Lead(s)))

\* The text holds no index: it is blank, begins with something that is no
\* number, or holds a negative number.
HoldsNoIndex(s) ==
  LET t == Lead(s)
  IN \/ t = <<>>
     \/ Head(t) = ChX
     \/ /\ Head(t) = ChMinus
        /\ (Len(t) = 1 \/ ~IsDigit(t[2]) \/ LeadingNumber(Tail(t)) > 0)

\* The slide index recorded in the stored suspend data, 0 if there is none.
SuspendIndex ==
  IF lms.suspend.kind = "json" /\ lms.suspend.currentSlide >= 0
    THEN lms.suspend.currentSlide ELSE 0

InitCalls == {k \in DOMAIN lmsLog : lmsLog[k].op = "init"}

\* C16: over any sequence of connect, recordProgress and recordCompletion
\* init() is called at most once, and once it was attempted a call neither
\* calls it again nor changes the connection result, whether the attempt
\* succeeded or failed.
C16_InitOnce ==
  [][/\ lms'.initCalls <= 1
     /\ scormState.attemptedInit =>
          /\ InitCalls' = {}
          /\ lms'.initCalls = lms.initCalls
          /\ scormState'.attemptedInit
          /\ scormState'.connected = scormState.connected]_vars

C16_Witness ==
  /\ lastCall.op = "connect"
  /\ lmsLog = <<>>
  /\ lms.host = "initFails"
  /\ lms.initCalls = 1
  /\ scormState.attemptedInit
  /\ ~scormState.connected

\* C17: without a host API, or when init() returns false, the player runs
\* on its own: the resume index is 0, init() is the only call ever made on
\* the LMS, whose content stays as it was, and showSlide moves the cursor,
\* calls the hooks, starts the gate and makes its reports as it does with
\* a session.
C17_LocalOnly ==
  (pc = "ready" /\ lms.host \in {"missing", "initFails"}) =>
     /\ ~scormState.connected
     /\ \A k \in DOMAIN lmsLog : lmsLog[k].op = "init"
     /\ lms.status = "" /\ lms.location = <<>> /\ lms.suspend = EmptySuspend
     /\ lms.exit = "" /\ ~lms.terminated
     /\ scormState.resumeIndex = 0
     /\ lastCall.op = "init" => lastCall.arg = 0 /\ currentSlideIndex = 0
     /\ (Navigated /\ ~lastCall.noop) =>
          /\ currentSlideIndex = Landing(lastCall.arg, Len(slides))
          /\ entered = {currentSlideIndex}
          /\ \E k \in At("enter") : events[k].slide = currentSlideIndex
          /\ At("persist") # {}
          /\ At("complete") # {} <=> currentSlideIndex = Len(slides) - 1
          /\ \A k \in At("gateStart") : events[k].slide = currentSlideIndex
          /\ instructionPlayback.slide \in {Null, currentSlideIndex}

C17_Witness ==
  /\ lastCall.op = "showSlide"
  /\ ~lastCall.noop
  /\ ~scormState.connected
  /\ lms.host = "initFails"
  /\ Len(slides) > 1
  /\ currentSlideIndex = Len(slides) - 1
  /\ At("complete") # {}
  /\ At("gateStart") # {}
  /\ lmsLog = <<>>

\* C18: when a set or save call throws in the progress or the completion
\* write, no exception reaches showSlide: the call runs to its end, the
\* cursor and the active slide are those of the navigation, both reports
\* are made, and every navigation that changes the slide attempts the
\* progress write whatever failed before.
C18_WriteFailureContained ==
  (Navigated /\ ~lastCall.noop) =>
     /\ At("uncaught") = {}
     /\ currentSlideIndex = Landing(lastCall.arg, Len(slides))
     /\ isActive = {currentSlideIndex}
     /\ entered = {currentSlideIndex}
     /\ At("persist") # {}
     /\ At("complete") # {} <=> currentSlideIndex = Len(slides) - 1
     /\ SessionOpen =>
          \E k \in SetsOf("location") :
             lmsLog[k].val = StringOf(currentSlideIndex)

\* A navigation writes its position after the completion write of an
\* earlier navigation failed at its first call.
C18_Witness ==
  /\ lastCall.op = "showSlide"
  /\ ~lastCall.noop
  /\ scormState.completionRecorded
  /\ lms.statusAtConnect \notin {"completed", "passed"}
  /\ lms.status # "completed"
  /\ NothingThrew
  /\ lms.location = StringOf(currentSlideIndex)
  /\ currentSlideIndex # Len(slides) - 1

\* C19: the first flushAndDisconnect of a connected session calls save()
\* and then quit(), quit() also when save() throws, and returns normally;
\* every later one, and any one without a connected session, calls
\* nothing: over any sequence of page events save() and quit() are called
\* at most once each by the handler.
C19_FlushOnce ==
  [][lastCall'.op = "flush" =>
       IF scormState.connected /\ ~scormState.quitting
         THEN /\ Len(lmsLog') = 2
              /\ lmsLog'[1].op = "save"
              /\ lmsLog'[2].op = "quit"
              /\ scormState'.quitting
              /\ ~lmsLog'[2].threw => lms'.terminated
         ELSE /\ lmsLog' = <<>>
              /\ lms' = lms
              /\ scormState' = scormState]_vars

C19_Witness ==
  /\ lastCall.op = "flush"
  /\ Len(lmsLog) = 2
  /\ lmsLog[1].op = "save" /\ lmsLog[1].threw
  /\ lmsLog[2].op = "quit" /\ ~lmsLog[2].threw
  /\ lms.terminated
  /\ scormState.quitting

\* C20 as stated: when the instruction clip fails, the gate of its slide is
\* released in the same step.
C20_ReleasedAtOnce ==
  lastCall.op = "error" =>
     /\ slideState[lastCall.arg + 1].instructionComplete
     /\ instructionPlayback = NoController

\* C20 as amended: when the instruction clip fails, the gate leaves the
\* audio stage in the same step, released at once on a slide without an
\* auto-play control and with the countdown armed on a slide with one; a
\* session whose clip is over always has its countdown armed, so that it
\* is never left waiting on the clip.
C20_FailOpen ==
  /\ lastCall.op = "error" =>
       /\ instructionPlayback.audio \notin {"loading", "playing"}
       /\ IF SlideAt(slides, lastCall.arg).auto
            THEN /\ instructionPlayback.slide = lastCall.arg
                 /\ instructionPlayback.interval > 0
            ELSE /\ slideState[lastCall.arg + 1].instructionComplete
                 /\ instructionPlayback = NoController
  /\ (instructionPlayback # NoController
        /\ instructionPlayback.audio = "over") =>
       /\ instructionPlayback.interval > 0
       /\ SlideAt(slides, instructionPlayback.slide).auto

C20_Witness ==
  /\ lastCall.op = "error"
  /\ SlideAt(slides, lastCall.arg).auto
  /\ instructionPlayback.slide = lastCall.arg
  /\ instructionPlayback.audio = "over"
  /\ instructionPlayback.interval > 0
  /\ ~slideState[lastCall.arg + 1].instructionComplete

\* The gate of the active slide is under way: its session exists and either
\* its clip is loading or playing or a countdown of it is armed.
GateUnderWay ==
  /\ instructionPlayback.slide = currentSlideIndex
  /\ \/ instructionPlayback.audio \in {"loading", "playing"}
     \/ instructionPlayback.interval > 0
     \/ instructionPlayback.leaked > 0

\* C21: while a slide is the active slide its gate is released or on its
\* way to be: a slide with neither clip nor auto-play control is released
\* when it is entered, and any other active slide that is not released has
\* its clip or its countdown pending, whose end releases it.
C21_GateReleases ==
  (pc = "ready" /\ Len(slides) > 0) =>
     \/ slideState[currentSlideIndex + 1].instructionComplete
     \/ GateUnderWay

\* The slides whose trigger the countdown invoked in the step that led here
TriggeredByCountdown(ev) ==
  {ev[k].slide : k \in {j \in DOMAIN ev : ev[j].e = "trigger"}}

\* The step is a click on the play button of slide i that short-circuits
\* the gate session of that slide.
ShortCircuits(i) ==
  /\ lastCall'.op = "click" /\ lastCall'.arg = i
  /\ instructionPlayback.slide = i
  /\ instructionPlayback' = NoController

\* C22: in one activation the gate starts the slide's primary action once:
\* the countdown invokes the trigger only of a slide whose action has not
\* been started in this activation, and then starts it; a click that
\* short-circuits the countdown finds the action not yet started and the
\* countdown does not invoke the trigger in that step or later (the slide
\* is marked auto-triggered); and the step by which the gate releases a
\* slide with an auto-play control is one of these two, so the action has
\* been started when the slide is released.
C22_TriggerOnce ==
  [][\A i \in 0..(Len(slides') - 1) :
       /\ i \in TriggeredByCountdown(events') =>
            /\ Len(slides) = Len(slides')
            /\ ~slideState[i + 1].closureTriggered
            /\ ~ShortCircuits(i)
            /\ slideState'[i + 1].closureTriggered
            /\ slideState'[i + 1].running
       /\ (Len(slides) = Len(slides') /\ ShortCircuits(i)) =>
            /\ ~slideState[i + 1].closureTriggered
            /\ slideState'[i + 1].closureTriggered
            /\ slideState'[i + 1].autoTriggered
            /\ instructionPlayback'.interval = 0
       /\ (/\ Len(slides) = Len(slides')
           /\ SlideAt(slides', i).auto
           /\ ~slideState[i + 1].instructionComplete
           /\ slideState'[i + 1].instructionComplete)
            => /\ slideState'[i + 1].closureTriggered
               /\ slideState'[i + 1].autoTriggered]_vars

\* The countdown of an auto-play slide ran to its end and started the
\* slide's sequence.
C22_Witness ==
  /\ lastCall.op = "tick"
  /\ lastCall.arg \in TriggeredByCountdown(events)
  /\ slideState[lastCall.arg + 1].running
  /\ slideState[lastCall.arg + 1].instructionComplete

\* The countdown of the gate session runs.
CountdownRuns ==
  /\ instructionPlayback # NoController
  /\ instructionPlayback.interval > 0

\* C23 as stated: while the countdown of a slide with an auto-play control
\* runs, the slide's play button is disabled.
C23_DisabledDuringCountdown ==
  CountdownRuns => slideState[instructionPlayback.slide + 1].btnDisabled

\* C23: the play button of a slide with an auto-play control is disabled
\* while the gate's instruction clip is loading or playing; when the
\* countdown begins the button is given back the state it had before the
\* gate (enabled), and it is enabled for as long as the countdown runs.
C23_LockedUntilCountdown ==
  instructionPlayback # NoController =>
    LET i == instructionPlayback.slide
    IN /\ (SlideAt(slides, i).auto
             /\ instructionPlayback.audio \in {"loading", "playing"})
            => /\ slideState[i + 1].btnDisabled
               /\ instructionPlayback.buttonLocked
               /\ ~CountdownRuns
       /\ CountdownRuns
            => /\ SlideAt(slides, i).auto
               /\ ~slideState[i + 1].btnDisabled
               /\ ~instructionPlayback.buttonLocked

\* The countdown runs after the instruction clip of the slide is over.
C23_Witness ==
  /\ CountdownRuns
  /\ instructionPlayback.audio = "over"
  /\ instructionPlayback.interval < 5
  /\ ~slideState[instructionPlayback.slide + 1].btnDisabled

\* The step is a transition of showSlide (or the first showSlide of init)
\* that activates slide i.
Activates(i) ==
  /\ lastCall'.op \in {"showSlide", "init"}
  /\ ~lastCall'.noop
  /\ Len(slides') > 0
  /\ currentSlideIndex' = i
  /\ i \in isActive'

\* C24: the gate runs once per activation: every transition that activates
\* a slide with an instruction clip or an auto-play control starts a gate
\* session for it with both flags false, also when the slide had been
\* active before.
C24_GatePerActivation ==
  [][\A i \in 0..(Len(slides') - 1) :
       (Activates(i) /\ (SlideAt(slides', i).audio \/ SlideAt(slides', i).auto))
         => \E k \in DOMAIN events' : events'[k] = Hook("gateStart", i)]_vars

\* C25: a gate session has at most one countdown interval armed, the one
\* its controller refers to, and no interval of a session that was released
\* or torn down is still armed, also when the error event and the rejection
\* of play() both arrive for one instruction clip.
C25_OneCountdownTimer ==
  /\ instructionPlayback.leaked = 0
  /\ (instructionPlayback = NoController => instructionPlayback.interval = 0)
  /\ staleTimers = 0

\* ------------------------------------- the audio manager driven directly
\* The audio manager and the sequence of a slide take the values of P.
InstallAudio(op, arg, P0) ==
  /\ \E P \in {P0} :
       /\ playback' = P.pb
       /\ sequence' = P.seq
  /\ lastCall' = Call(op, arg, FALSE)
  /\ UNCHANGED <<pc, lms, scormState, completionWrites, events, lmsLog>>
  /\ UNCHANGED navVars

Player == [pb |-> playback, seq |-> sequence]

\* The signals a caller of play() passes: none or signal 1.
PlaySignals == {0, 1}

AudioInit ==
  /\ pc = "audio"
  /\ lms = InitLms("missing", "", <<>>, EmptySuspend)
  /\ scormState = InitScormState
  /\ slides = <<>>
  /\ currentSlideIndex = 0
  /\ navigationAttached = FALSE
  /\ content = <<>>
  /\ navButtons = InitButtons
  /\ lateRejection = FALSE
  /\ isActive = {}
  /\ entered = {}
  /\ slideState = <<>>
  /\ instructionPlayback = NoController
  /\ staleTimers = 0
  /\ completionWrites = 0
  /\ lastCall = Call("load", 0, FALSE)
  /\ events = <<>>
  /\ lmsLog = <<>>
  /\ playback = InitPlayback
  /\ sequence = InitSequence("runSequence")

\* A call of audioManager.play(url, {signal})
PlayClip ==
  /\ pc = "audio"
  /\ Len(playback.calls) < MaxPlays
  /\ \E url \in Urls, token \in PlaySignals :
       InstallAudio("play", <<url, token>>,
                    [Player EXCEPT !.pb = play(@, url, token)])

\* The caller aborts its signal.
FireToken ==
  /\ pc = "audio"
  /\ \E token \in PlaySignals \ {0} :
       /\ token \notin playback.fired
       /\ InstallAudio("abort", token,
                       [Player EXCEPT !.pb = abort(@, token)])

\* A call of audioManager.stopAll()
StopAll ==
  /\ pc = "audio"
  /\ InstallAudio("stopAll", 0, [Player EXCEPT !.pb = stopAll(@)])

\* The metadata of a clip arrive.
LoadedMetadata ==
  \E url \in Urls :
    /\ playback.cache[url].meta = "loading"
    /\ InstallAudio("loadedmetadata", url,
                    resume([Player EXCEPT !.pb = loadedmetadata(@, url)]))

\* A clip fails to load.
LoadError ==
  \E url \in Urls :
    /\ playback.cache[url].meta = "loading"
    /\ InstallAudio("loadError", url,
                    resume([Player EXCEPT !.pb = errorEvent(@, url)]))

\* A clip plays to its end.
Ended ==
  \E url \in Urls :
    /\ playback.cache[url].playing
    /\ InstallAudio("ended", url,
                    resume([Player EXCEPT !.pb = endedEvent(@, url)]))

\* A clip fails while it plays.
PlaybackError ==
  \E url \in Urls :
    /\ playback.cache[url].playing
    /\ InstallAudio("playbackError", url,
                    resume([Player EXCEPT !.pb = errorEvent(@, url)]))

AudioNext ==
  \/ PlayClip
  \/ FireToken
  \/ StopAll
  \/ LoadedMetadata
  \/ LoadError
  \/ Ended
  \/ PlaybackError

AudioSpec == AudioInit /\ [][AudioNext]_vars

\* ------------------------------------------ the sequence of a slide
SequenceInit ==
  /\ pc = "sequence"
  /\ lms = InitLms("missing", "", <<>>, EmptySuspend)
  /\ scormState = InitScormState
  /\ slides = <<>>
  /\ currentSlideIndex = 0
  /\ navigationAttached = FALSE
  /\ content = <<>>
  /\ navButtons = InitButtons
  /\ lateRejection = FALSE
  /\ isActive = {}
  /\ entered = {}
  /\ slideState = <<>>
  /\ instructionPlayback = NoController
  /\ staleTimers = 0
  /\ completionWrites = 0
  /\ lastCall = Call("load", 0, FALSE)
  /\ events = <<>>
  /\ lmsLog = <<>>
  /\ playback = InitPlayback
  /\ sequence \in {InitSequence(kind) : kind \in SequenceKinds}

\* A click on the play button of the slide, or its trigger
StartSequence ==
  /\ pc = "sequence"
  /\ ~sequence.btnDisabled
  /\ sequence.runs < MaxRuns
  /\ InstallAudio("runSequence", sequence.runs + 1, runSequence(Player))

\* The slide is left.
LeaveSlide ==
  /\ pc = "sequence"
  /\ InstallAudio("onLeave", sequence.idx, sequenceOnLeave(Player))

\* The delay after a segment is over.
DelayElapsed ==
  /\ pc = "sequence"
  /\ sequence.status = "awaitDelay"
  /\ InstallAudio("delay", sequence.idx, afterDelay(Player))

SequenceNext ==
  \/ StartSequence
  \/ LeaveSlide
  \/ DelayElapsed
  \/ LoadedMetadata
  \/ LoadError
  \/ Ended
  \/ PlaybackError

SequenceSpec == SequenceInit /\ [][SequenceNext]_vars

\* ------------------------------------------------ claims on the audio manager
\* The play() calls made so far
PlayCalls == DOMAIN playback.calls

\* The step aborts signal t.
Aborts(t) == lastCall'.op = "abort" /\ lastCall'.arg = t

\* C26: cancellation never rejects a play().  When the signal of a pending
\* call is aborted, the call's promise is resolved and its element is
\* paused at position 0; a call that was settled before is left as it was,
\* and so is every element no pending call of that signal plays, so that
\* aborting after the play has completed has no effect.  A play() called
\* with an aborted signal is resolved when it returns, without playback
\* starting and with nothing left to start it later.  A resolved promise
\* stays resolved.
C26_CancelResolves ==
  [][/\ \A k \in PlayCalls :
          /\ playback.calls[k].state # "pending"
               => playback'.calls[k].state = playback.calls[k].state
          /\ \A t \in Signals :
               (Aborts(t) /\ playback.calls[k].token = t
                  /\ playback.calls[k].state = "pending")
                 => LET url == playback.calls[k].url
                    IN /\ playback'.calls[k].state = "resolved"
                       /\ ~playback'.cache[url].playing
                       /\ playback'.cache[url].currentTime = 0
     /\ \A t \in Signals, url \in Urls :
          (Aborts(t)
             /\ ~\E k \in PlayCalls :
                   /\ playback.calls[k].token = t
                   /\ playback.calls[k].url = url
                   /\ playback.calls[k].state = "pending")
            => playback'.cache[url] = playback.cache[url]
     /\ (lastCall'.op = "play" /\ lastCall'.arg[2] \in playback.fired)
          => LET k == Len(playback'.calls)
                 url == lastCall'.arg[1]
             IN /\ k = Len(playback.calls) + 1
                /\ playback'.calls[k].state = "resolved"
                /\ ~playback'.calls[k].metaWait
                /\ ~playback'.cache[url].playing
                /\ url \notin playback'.active]_vars

\* A play() is cancelled while its clip plays: the promise is resolved
\* and the clip rests at position 0.
C26_Witness ==
  /\ lastCall.op = "abort"
  /\ Len(playback.calls) = 1
  /\ playback.calls[1].token = lastCall.arg
  /\ playback.calls[1].state = "resolved"
  /\ ~playback.calls[1].metaWait
  /\ playback.cache[playback.calls[1].url].meta = "loaded"
  /\ ~playback.cache[playback.calls[1].url].playing
  /\ playback.cache[playback.calls[1].url].currentTime = 0

\* The step is the failure of the clip of url, while it loads or plays.
Fails(url) ==
  /\ lastCall'.op \in {"loadError", "playbackError"}
  /\ lastCall'.arg = url

\* C27: when a clip fails to load or to play, the promise of every play()
\* that waits for it is resolved, not rejected.
C27_FailureResolves ==
  [][\A k \in PlayCalls :
       (Fails(playback.calls[k].url) /\ playback.calls[k].state = "pending")
         => playback'.calls[k].state = "resolved"]_vars

\* A run of the sequence waits for the clip of segment idx to play.
AwaitsSegment(idx) ==
  /\ sequence.status = "awaitPlay"
  /\ sequence.idx = idx
  /\ playback.calls[sequence.call].state = "pending"
  /\ sequence.signal \notin playback.fired

\* C28: the failure of the clip a run waits for does not end the run: the
\* run goes on with the segments after it, or, no segment being left, ends
\* as a run that went through all its segments.
C28_FailureSkipsSegment ==
  [][\A idx \in Urls :
       (AwaitsSegment(idx) /\ Fails(idx))
         => \/ /\ sequence'.status # "idle"
               /\ sequence'.idx > idx
               /\ sequence'.runs = sequence.runs
            \/ /\ sequence'.status = "idle"
               /\ sequence'.text = "complete"]_vars

\* C29: an element plays only on behalf of a play() call that is still
\* pending, whose signal has not been aborted, and while the element is in
\* the active set; a call that was cancelled by its signal or by stopAll
\* while the metadata were loading does not start playback later.
C29_PlaysOnlyWhileActive ==
  \A url \in Urls :
    playback.cache[url].playing =>
      /\ url \in playback.active
      /\ playback.cache[url].startedBy \in PlayCalls
      /\ LET call == playback.calls[playback.cache[url].startedBy]
         IN /\ call.state = "pending"
            /\ call.token \notin playback.fired

\* The clips that are playing
Playing == {url \in Urls : playback.cache[url].playing}

\* C30: the segments of a run play one after the other: at most one clip
\* plays at a time, the clip that plays is that of the segment the run is
\* at and waits for, so that no segment starts before the one before it
\* has ended and the delay after it is over, and no clip plays on behalf
\* of a run whose signal has been aborted.
C30_SegmentsInSequence ==
  /\ Cardinality(Playing) <= 1
  /\ \A url \in Playing :
       /\ sequence.status = "awaitPlay"
       /\ sequence.idx = url
       /\ playback.cache[url].startedBy = sequence.call
       /\ sequence.signal \notin playback.fired

\* ------------------------------------------------- claims on the sequence

\* A clip plays, or is still to be started, on behalf of a call of signal
\* s, in the audio manager pb.
ActivityOf(pb, s) ==
  \E k \in DOMAIN pb.calls :
    /\ pb.calls[k].token = s
    /\ \/ pb.calls[k].metaWait
       \/ /\ pb.cache[pb.calls[k].url].playing
          /\ pb.cache[pb.calls[k].url].startedBy = k

\* The slide is left while the clip of the segment the run is at plays.
LeftMidSegment ==
  /\ lastCall'.op = "onLeave"
  /\ sequence.status = "awaitPlay"
  /\ playback.calls[sequence.call].state = "pending"
  /\ playback.cache[sequence.idx].playing
  /\ playback.cache[sequence.idx].startedBy = sequence.call

\* C31: when the slide is left while a segment of a run plays, the play()
\* the run waits for is resolved, the run ends without calling play() for
\* a later segment, and no clip plays or is still to start on behalf of
\* the run; and a cancelled run that is silent stays silent whatever
\* follows (a new run included).
C31_CancelMidSegment ==
  [][/\ LeftMidSegment =>
          /\ playback'.calls[sequence.call].state = "resolved"
          /\ sequence'.status = "idle"
          /\ Len(playback'.calls) = Len(playback.calls)
          /\ sequence.signal \in playback'.fired
          /\ ~ActivityOf(playback', sequence.signal)
     /\ \A s \in Signals :
          (s \in playback.fired /\ ~ActivityOf(playback, s))
            => ~ActivityOf(playback', s)]_vars

\* A run is cancelled while its second segment plays.
C31_Witness ==
  /\ lastCall.op = "onLeave"
  /\ lastCall.arg = 2
  /\ sequence.status = "idle"
  /\ Len(playback.calls) = 2
  /\ playback.calls[2].state = "resolved"
  /\ playback.calls[2].token \in playback.fired
  /\ playback.cache[2].meta = "loaded"
  /\ ~playback.calls[2].metaWait

\* --------------------------------------- the sequenced listening slide
\* The slide of listening-2.js.  Its state is held in sequence, a record
\* of kind "listening2": loops are the calls of runSequence that have not
\* returned, loop s being the run with signal s (status "none": no such
\* run; "awaitPlay", "awaitDuration", "awaitGap", "awaitBetween": the
\* await the run is at; index its segment, counted from 0; call the
\* play() call it awaits), token the signal of sequenceAbort (0: null),
\* played the segments whose clip was played to its end or failed since
\* the slide was entered (kept for the claims).  timing is the slide's
\* mode, gap and between tell whether computeSegmentGapMs and
\* getBetweenItemGapMs of the lesson give a positive time.
TimingModes == {"listen", "listen-repeat", "read"}

NoLoop == [status |-> "none", index |-> 0, call |-> 0]

InitListening(timing, gap, between) ==
  [kind |-> "listening2", timing |-> timing, gap |-> gap,
   between |-> between, loops |-> [s \in Signals |-> NoLoop],
   token |-> 0, runs |-> 0, autoTriggered |-> FALSE,
   pendingAutoStart |-> FALSE, pauseRequested |-> FALSE,
   mode |-> "idle", resumeIndex |-> 0, text |-> "",
   btnDisabled |-> FALSE, played |-> {}]

\* setPlaybackMode(mode, {resumeIndex})
setPlaybackMode(P, mode, resumeIndex) ==
  [P EXCEPT !.seq.mode = mode, !.seq.resumeIndex = resumeIndex]

\* resetPlaybackState()
resetPlaybackState(P) ==
  [setPlaybackMode(P, "idle", 0) EXCEPT !.seq.autoTriggered = FALSE,
                                        !.seq.btnDisabled = FALSE,
                                        !.seq.played = {}]

\* clearAutoStart()
clearAutoStart(P) == [P EXCEPT !.seq.pendingAutoStart = FALSE]

\* The finally block of run s: it reads sequenceAbort, whichever run made
\* it, and sets it to null.
finallyBlock(P0, s, completed) ==
  Bind(P0, LAMBDA P :
    LET aborted == P.seq.token # 0 /\ P.seq.token \in P.pb.fired
        Q == [P EXCEPT !.seq.token = 0, !.seq.loops[s] = NoLoop,
                       !.seq.pauseRequested = FALSE]
    IN IF aborted /\ P.seq.pauseRequested
         THEN [setPlaybackMode(Q, "paused", P.seq.resumeIndex)
                 EXCEPT !.seq.text = "Paused."]
       ELSE IF completed
         THEN resetPlaybackState(Q)
       ELSE IF aborted
         THEN [resetPlaybackState(Q) EXCEPT !.seq.text = "Playback stopped."]
       ELSE resetPlaybackState(Q))

RECURSIVE loopAt(_, _, _)
RECURSIVE afterPlayed(_, _)

\* Run s after the wait between two items
afterBetween(P, s) == loopAt(P, s, P.seq.loops[s].index + 1)

\* Run s after the gap of its segment
afterGap(P0, s) ==
  Bind(P0, LAMBDA P :
    LET index == P.seq.loops[s].index
        Q == IF P.seq.timing = "read" /\ P.seq.gap /\ s \notin P.pb.fired
               THEN [P EXCEPT !.seq.text = "Listening..."] ELSE P
    IN IF s \in P.pb.fired THEN finallyBlock(Q, s, FALSE)
       ELSE IF /\ P.seq.timing = "read" /\ index < MaxSegments - 1
               /\ P.seq.between
         THEN [Q EXCEPT !.seq.loops[s].status = "awaitBetween"]
       ELSE loopAt(Q, s, index + 1))

\* Run s after audioManager.getDuration of its segment
afterDuration(P0, s) ==
  Bind(P0, LAMBDA P :
    LET index == P.seq.loops[s].index
    IN IF s \in P.pb.fired THEN finallyBlock(P, s, FALSE)
       ELSE IF ~P.seq.gap THEN afterGap(P, s)
       ELSE IF P.seq.timing = "listen-repeat"
         THEN [P EXCEPT !.seq.loops[s].status = "awaitGap",
                        !.seq.text = "Your turn..."]
       ELSE IF P.seq.timing = "read"
         THEN [P EXCEPT !.seq.loops[s].status = "awaitGap",
                        !.seq.text = "Read along..."]
       ELSE IF index < MaxSegments - 1
         THEN [P EXCEPT !.seq.loops[s].status = "awaitGap",
                        !.seq.text = "Next up..."]
       ELSE afterGap(P, s))

\* Run s after the play() it awaited is settled: a failure is caught, a
\* fired signal ends the loop, and getDuration waits for the metadata of
\* the clip.
afterPlayed(P0, s) ==
  Bind(P0, LAMBDA P :
    LET lp == P.seq.loops[s]
        Q == IF P.pb.calls[lp.call].state = "rejected" /\ s \notin P.pb.fired
               THEN [P EXCEPT !.seq.text = "Unable to play audio."] ELSE P
    IN IF s \in P.pb.fired THEN finallyBlock(Q, s, FALSE)
       ELSE Bind([Q EXCEPT !.seq.resumeIndex = lp.index + 1,
                           !.seq.played = @ \cup {lp.index}],
              LAMBDA R :
                IF R.pb.cache[lp.index + 1].meta \in {"loaded", "failed"}
                  THEN afterDuration(R, s)
                  ELSE [R EXCEPT !.seq.loops[s].status = "awaitDuration"]))

\* The for loop of run s at index: past the last entry the run is
\* completed, else the clip of the entry is played and awaited.
loopAt(P0, s, index) ==
  Bind(P0, LAMBDA P :
    IF index >= MaxSegments
      THEN IF s \in P.pb.fired THEN finallyBlock(P, s, FALSE)
           ELSE finallyBlock([P EXCEPT !.seq.text = "Playback complete."],
                             s, TRUE)
    ELSE Bind(play(P.pb, index + 1, s), LAMBDA pb :
           Bind([P EXCEPT !.pb = pb,
                          !.seq.resumeIndex = index,
                          !.seq.text = "Listening...",
                          !.seq.loops[s] =
                            [status |-> "awaitPlay", index |-> index,
                             call |-> Len(pb.calls)]],
             LAMBDA Q :
               IF Q.pb.calls[Q.seq.loops[s].call].state # "pending"
                 THEN afterPlayed(Q, s) ELSE Q)))

\* Run s goes on if what it awaits is settled: the promise of play(), the
\* metadata getDuration waits for, or a waitMs whose signal has fired.
resumeLoop(P0, s) ==
  Bind(P0, LAMBDA P :
    LET lp == P.seq.loops[s]
    IN IF lp.status = "awaitPlay" /\ P.pb.calls[lp.call].state # "pending"
         THEN afterPlayed(P, s)
       ELSE IF /\ lp.status = "awaitDuration"
               /\ P.pb.cache[lp.index + 1].meta \in {"loaded", "failed"}
         THEN afterDuration(P, s)
       ELSE IF lp.status = "awaitGap" /\ s \in P.pb.fired
         THEN afterGap(P, s)
       ELSE IF lp.status = "awaitBetween" /\ s \in P.pb.fired
         THEN afterBetween(P, s)
       ELSE P)

\* The runs s, s + 1, ... go on, the older first.
RECURSIVE resumeLoops(_, _)
resumeLoops(P0, s) ==
  Bind(P0, LAMBDA P :
    IF s > MaxRuns THEN P ELSE resumeLoops(resumeLoop(P, s), s + 1))

\* A runSequence that makes no controller of its own
listeningRunNoController(P0, fromIndex) ==
  Bind(P0, LAMBDA P :
    LET r == P.seq.runs + 1
    IN resumeLoops(
         loopAt([setPlaybackMode(P, "playing", fromIndex)
                   EXCEPT !.pb = stopAll(@),
                          !.seq.pauseRequested = FALSE,
                          !.seq.runs = r,
                          !.seq.text = IF fromIndex = 0 THEN "Starting..."
                                       ELSE "Resuming..."],
                r, fromIndex),
         1))

\* runSequence(fromIndex) of the slide: the run in course is aborted, a
\* new controller made, stopAll called and the loop entered; the aborted
\* run goes on after the new one has reached its first await.
listeningRun(P0, fromIndex) ==
  Bind(P0, LAMBDA P :
    LET r == P.seq.runs + 1
    IN resumeLoops(
         loopAt([setPlaybackMode(P, "playing", fromIndex)
                   EXCEPT !.pb = stopAll(IF P.seq.token # 0
                                           THEN abort(@, P.seq.token)
                                           ELSE @),
                          !.seq.pauseRequested = FALSE,
                          !.seq.runs = r,
                          !.seq.token = r,
                          !.seq.text = IF fromIndex = 0 THEN "Starting..."
                                       ELSE "Resuming..."],
                r, fromIndex),
         1))

\* startSequence(fromIndex) of the slide
listeningStart(P, fromIndex) ==
  listeningRun([clearAutoStart(P) EXCEPT !.seq.autoTriggered = TRUE],
               fromIndex)

\* triggerAutoPlay of the slide: the run is started by a timer.
listeningTrigger(P) ==
  IF P.seq.autoTriggered \/ P.seq.mode \in {"playing", "paused"} THEN P
  ELSE [P EXCEPT !.seq.autoTriggered = TRUE,
                 !.seq.pendingAutoStart = TRUE]

\* The click handler of the slide's button: pause, resume or start
listeningClick(P0) ==
  Bind(P0, LAMBDA P :
    IF P.seq.mode = "playing"
      THEN resumeLoops(
             [P EXCEPT !.seq.pauseRequested = TRUE,
                       !.pb = IF P.seq.token # 0 THEN abort(@, P.seq.token)
                              ELSE @],
             1)
    ELSE IF P.seq.mode = "paused"
      THEN listeningStart(P, P.seq.resumeIndex)
    ELSE listeningStart(P, 0))

\* An onLeave that leaves the playback state as it is
listeningOnLeaveKeepsState(P0) ==
  Bind(P0, LAMBDA P :
    resumeLoops(
      [clearAutoStart(P)
         EXCEPT !.pb = stopAll(IF P.seq.token # 0
                                 THEN abort(@, P.seq.token) ELSE @),
                !.seq.pauseRequested = FALSE,
                !.seq.token = 0,
                !.seq.text = ""],
      1))

\* onLeave of the slide; the aborted run goes on after it.
listeningOnLeave(P0) ==
  Bind(P0, LAMBDA P :
    resumeLoops(
      [resetPlaybackState(clearAutoStart(P))
         EXCEPT !.pb = stopAll(IF P.seq.token # 0
                                 THEN abort(@, P.seq.token) ELSE @),
                !.seq.pauseRequested = FALSE,
                !.seq.token = 0,
                !.seq.text = ""],
      1))

ListeningInit ==
  /\ pc = "listening"
  /\ lms = InitLms("missing", "", <<>>, EmptySuspend)
  /\ scormState = InitScormState
  /\ slides = <<>>
  /\ currentSlideIndex = 0
  /\ navigationAttached = FALSE
  /\ content = <<>>
  /\ navButtons = InitButtons
  /\ lateRejection = FALSE
  /\ isActive = {}
  /\ entered = {}
  /\ slideState = <<>>
  /\ instructionPlayback = NoController
  /\ staleTimers = 0
  /\ completionWrites = 0
  /\ lastCall = Call("load", 0, FALSE)
  /\ events = <<>>
  /\ lmsLog = <<>>
  /\ playback = InitPlayback
  /\ sequence \in {InitListening(t, g, FALSE) :
                     t \in TimingModes, g \in BOOLEAN}
                   \cup {InitListening("read", g, TRUE) : g \in BOOLEAN}

\* A click on the button of the slide
ListeningClick ==
  /\ pc = "listening"
  /\ ~sequence.btnDisabled
  /\ sequence.mode = "playing" \/ sequence.runs < MaxRuns
  /\ InstallAudio("click", sequence.resumeIndex, listeningClick(Player))

\* The gate calls the trigger of the slide.
ListeningTrigger ==
  /\ pc = "listening"
  /\ listeningTrigger(Player) # Player
  /\ InstallAudio("trigger", 0, listeningTrigger(Player))

\* The timer of triggerAutoPlay fires.
ListeningAutoStart ==
  /\ pc = "listening"
  /\ sequence.pendingAutoStart
  /\ sequence.runs < MaxRuns
  /\ InstallAudio("autoStart", 0,
                  listeningRun(clearAutoStart(Player), 0))

\* The slide is left.
ListeningLeave ==
  /\ pc = "listening"
  /\ InstallAudio("onLeave", sequence.resumeIndex, listeningOnLeave(Player))

\* The timer of a waitMs of run s fires.
ListeningGapElapsed ==
  \E s \in Signals :
    /\ pc = "listening"
    /\ sequence.loops[s].status \in {"awaitGap", "awaitBetween"}
    /\ InstallAudio("waitMs", s,
         IF sequence.loops[s].status = "awaitGap"
           THEN afterGap(Player, s) ELSE afterBetween(Player, s))

\* The events of the clips
ListeningLoadedMetadata ==
  \E url \in Urls :
    /\ pc = "listening"
    /\ playback.cache[url].meta = "loading"
    /\ InstallAudio("loadedmetadata", url,
         resumeLoops([Player EXCEPT !.pb = loadedmetadata(@, url)], 1))

ListeningLoadError ==
  \E url \in Urls :
    /\ pc = "listening"
    /\ playback.cache[url].meta = "loading"
    /\ InstallAudio("loadError", url,
         resumeLoops([Player EXCEPT !.pb = errorEvent(@, url)], 1))

ListeningEnded ==
  \E url \in Urls :
    /\ pc = "listening"
    /\ playback.cache[url].playing
    /\ InstallAudio("ended", url,
         resumeLoops([Player EXCEPT !.pb = endedEvent(@, url)], 1))

ListeningPlaybackError ==
  \E url \in Urls :
    /\ pc = "listening"
    /\ playback.cache[url].playing
    /\ InstallAudio("playbackError", url,
         resumeLoops([Player EXCEPT !.pb = errorEvent(@, url)], 1))

ListeningNext ==
  \/ ListeningClick
  \/ ListeningTrigger
  \/ ListeningAutoStart
  \/ ListeningLeave
  \/ ListeningGapElapsed
  \/ ListeningLoadedMetadata
  \/ ListeningLoadError
  \/ ListeningEnded
  \/ ListeningPlaybackError

ListeningSpec == ListeningInit /\ [][ListeningNext]_vars

\* The runs of the slide that have not returned
LiveLoops(seq) == {s \in Signals : seq.loops[s].status # "none"}

\* The runs that have not returned and whose signal has not fired
Uncancelled(pb, seq) == LiveLoops(seq) \ pb.fired

\* C32: a slide has at most one run of its sequence that is not cancelled:
\* at any time at most one run that has not returned has a signal that
\* has not fired, that signal is the one sequenceAbort holds (no run that
\* ends or is cancelled clears or replaces the token of a newer run), and
\* after onLeave no run is left that is not cancelled.
C32_OneRunPerSlide ==
  [][/\ Cardinality(Uncancelled(playback', sequence')) <= 1
     /\ \A s \in Uncancelled(playback', sequence') : sequence'.token = s
     /\ lastCall'.op = "onLeave" => Uncancelled(playback', sequence') = {}
     /\ sequence'.runs # sequence.runs
          => Uncancelled(playback', sequence') \subseteq {sequence'.runs}]_vars

\* Run 1 was cancelled by a click on Pause and has returned, run 2 is in
\* course and sequenceAbort holds its signal.
C32_Witness ==
  /\ sequence.runs = 2
  /\ 1 \in playback.fired
  /\ sequence.loops[1].status = "none"
  /\ sequence.loops[2].status = "awaitPlay"
  /\ sequence.token = 2
  /\ 2 \notin playback.fired

\* The run sequenceAbort belongs to awaits the clip of its segment.
MidSegment(s) ==
  /\ sequence.loops[s].status = "awaitPlay"
  /\ playback.calls[sequence.loops[s].call].state = "pending"

\* The step is a click on the button in the given mode.
ClickIn(mode) == lastCall'.op = "click" /\ sequence.mode = mode

\* C40: on the sequenced listening slide a click on Pause leaves the mode
\* "paused" with the resume index at the interrupted segment, or at the
\* next one if the clip of the segment had ended; a click on Resume plays
\* the clip of the resume index first; no run is at a segment, and no
\* pause at a resume index, before which a segment has not been played;
\* the mode is "playing" exactly while a run has not returned; and leaving
\* the slide gives mode "idle", resume index 0 and no auto-start timer.
C40_PauseAndResume ==
  [][/\ \A s \in Signals :
          (ClickIn("playing") /\ sequence.token = s
             /\ sequence.loops[s].status # "none")
            => /\ sequence'.mode = "paused"
               /\ sequence'.resumeIndex =
                    IF MidSegment(s) THEN sequence.loops[s].index
                    ELSE sequence.loops[s].index + 1
     /\ ClickIn("paused")
          => IF sequence.resumeIndex < MaxSegments
               THEN /\ Len(playback'.calls) > Len(playback.calls)
                    /\ playback'.calls[Len(playback.calls) + 1].url
                         = sequence.resumeIndex + 1
               ELSE /\ Len(playback'.calls) = Len(playback.calls)
                    /\ sequence'.mode = "idle"
     /\ \A s \in LiveLoops(sequence') :
          \A j \in 0..(sequence'.loops[s].index - 1) : j \in sequence'.played
     /\ sequence'.mode = "paused"
          => \A j \in 0..(sequence'.resumeIndex - 1) : j \in sequence'.played
     /\ sequence'.mode = "playing" <=> LiveLoops(sequence') # {}
     /\ lastCall'.op = "onLeave"
          => /\ sequence'.mode = "idle"
             /\ sequence'.resumeIndex = 0
             /\ ~sequence'.pendingAutoStart]_vars

\* The first run was paused while the clip of its second segment played,
\* and the run started by Resume plays that clip again.
C40_Witness ==
  /\ sequence.runs = 2
  /\ 1 \in playback.fired
  /\ sequence.mode = "playing"
  /\ sequence.loops[2].status = "awaitPlay"
  /\ sequence.loops[2].index = 1
  /\ sequence.played = {0}
  /\ lastCall.op = "click" /\ lastCall.arg = 1

\* ------------------------------------------- the pause of listen and repeat
\* Largest configured pause of the model, in steps of PauseStep ms.
MaxPause == 8
\* Longest clip of the model, in steps of ClipStep microseconds.
MaxClip == 8

PauseStep == 250
ClipStep == 300250

\* JS numbers of the timing code: a finite number (v: milliseconds for a
\* pause, microseconds for the duration of a clip), NaN, Infinity, and
\* undefined for a value that is missing.
Number(v) == [t |-> "number", v |-> v]
NotANumber == [t |-> "NaN", v |-> 0]
Infinity == [t |-> "Infinity", v |-> 0]
Undefined == [t |-> "undefined", v |-> 0]

\* Number.isFinite
NumberIsFinite(x) == x.t = "number"

\* Math.round(duration * 1000) of a duration given in microseconds: the
\* nearest millisecond, a half going up.
RoundToMs(us) == (us + 500) \div 1000

\* The values of repeatPauseMs a lesson may configure
PauseValues ==
  {Undefined, NotANumber, Infinity}
    \cup {Number(k * PauseStep) : k \in (0 - 1)..MaxPause}

\* The values audio.duration may have; a clip without url has none.
DurationValues ==
  {Undefined, NotANumber, Infinity}
    \cup {Number(k * ClipStep) : k \in (0 - 1)..MaxClip}

\* basePauseMs of the listen and repeat slide; a parameter that is
\* undefined takes its default.
basePauseMs(repeatPauseMs) ==
  LET p == IF repeatPauseMs = Undefined THEN Number(1500) ELSE repeatPauseMs
  IN IF NumberIsFinite(p) THEN IF p.v > 500 THEN p.v ELSE 500 ELSE 1500

\* audioManager.getDuration(url), in microseconds, duration being
\* audio.duration when the metadata are there (Undefined: no clip)
measuredDuration(duration) ==
  IF NumberIsFinite(duration) THEN duration.v ELSE 0

\* A pause that is the rounded duration of the clip
pauseMsOfClip(base, us) == RoundToMs(us)

\* pauseMs of a segment: Math.max(basePauseMs, Math.round(duration * 1000))
pauseMs(base, us) ==
  IF RoundToMs(us) > base THEN RoundToMs(us) ELSE base

\* The listen and repeat slide before its first segment
InitRepeat(repeatPauseMs) ==
  [kind |-> "listenRepeat", repeatPauseMs |-> repeatPauseMs,
   basePauseMs |-> basePauseMs(repeatPauseMs), duration |-> Undefined,
   pauseMs |-> 0, segments |-> 0]

RepeatInit ==
  /\ pc = "repeat"
  /\ lms = InitLms("missing", "", <<>>, EmptySuspend)
  /\ scormState = InitScormState
  /\ slides = <<>>
  /\ currentSlideIndex = 0
  /\ navigationAttached = FALSE
  /\ content = <<>>
  /\ navButtons = InitButtons
  /\ lateRejection = FALSE
  /\ isActive = {}
  /\ entered = {}
  /\ slideState = <<>>
  /\ instructionPlayback = NoController
  /\ staleTimers = 0
  /\ completionWrites = 0
  /\ lastCall = Call("load", 0, FALSE)
  /\ events = <<>>
  /\ lmsLog = <<>>
  /\ playback = InitPlayback
  /\ sequence \in {InitRepeat(p) : p \in PauseValues}

\* The clip of a segment has ended: its duration is measured and the
\* pause computed.
SegmentPause ==
  \E d \in DurationValues :
    /\ pc = "repeat"
    /\ sequence' = [sequence EXCEPT
                      !.duration = d,
                      !.pauseMs = pauseMs(sequence.basePauseMs,
                                          measuredDuration(d)),
                      !.segments = 1]
    /\ lastCall' = Call("pause", 0, FALSE)
    /\ UNCHANGED <<pc, lms, scormState, completionWrites, events, lmsLog,
                   playback>>
    /\ UNCHANGED navVars

RepeatSpec == RepeatInit /\ [][SegmentPause]_vars

\* The durations that are numbers
Measured == {d \in DurationValues : NumberIsFinite(d)}

\* C33: the pause after a segment of listen and repeat is never below the
\* configured minimum, which is never below 500 ms; it does not decrease
\* when the measured duration grows; and it is the minimum, not 0 and not
\* NaN, when the duration is NaN, missing, 0 or negative.
C33_PauseBounds ==
  LET base == sequence.basePauseMs
      pause(d) == pauseMs(base, measuredDuration(d))
  IN /\ base >= 500
     /\ NumberIsFinite(sequence.repeatPauseMs)
          => base >= sequence.repeatPauseMs.v
     /\ sequence.segments > 0
          => /\ sequence.pauseMs \in Int
             /\ sequence.pauseMs >= base
             /\ (~NumberIsFinite(sequence.duration)
                   \/ sequence.duration.v <= 0)
                  => sequence.pauseMs = base
     /\ \A d1, d2 \in Measured :
          d1.v <= d2.v => pause(d1) <= pause(d2)

\* A pause of 1500 ms was configured, and the pause after a clip whose
\* duration is NaN is 1500 ms.
C33_Witness ==
  /\ sequence.segments = 1
  /\ sequence.repeatPauseMs = Number(1500)
  /\ sequence.duration = NotANumber
  /\ sequence.pauseMs = 1500

\* C34: with an empty slide list both navigation buttons are disabled, and
\* a later call of showSlide returns at once: no exception, no hook, no
\* gate session, no call on the LMS, no change of the cursor or of the
\* adapter's state.
C34_EmptyLesson ==
  [][/\ (pc' = "ready" /\ slides' = <<>>)
          => /\ navButtons'.prev /\ navButtons'.next
             /\ instructionPlayback' = NoController
             /\ isActive' = {}
     /\ (pc = "ready" /\ slides = <<>> /\ lastCall'.op = "showSlide")
          => /\ lastCall'.noop
             /\ events' = <<>>
             /\ lmsLog' = <<>>
             /\ lms' = lms
             /\ scormState' = scormState
             /\ completionWrites' = completionWrites
             /\ currentSlideIndex' = currentSlideIndex
             /\ staleTimers' = staleTimers
             /\ slides' = <<>>]_vars

\* init() found no activity, and a navigation handler has called
\* showSlide since.
C34_Witness ==
  /\ pc = "ready"
  /\ slides = <<>>
  /\ navigationAttached
  /\ lastCall.op = "showSlide"
  /\ lastCall.noop
  /\ navButtons = DisabledButtons

\* --------------------------------------------------- the build of a lesson
\* Largest number of activities of a lesson document.
MaxActivities == 2
\* Largest number of items a builder returns.
MaxBuilt == 2

\* What the builder of an activity does with the activity's content:
\* there is no builder for the type ("none"), the builder throws
\* ("throws"), or it returns the items produced, of which an item is TRUE
\* when it is a slide descriptor with an element (nothing, null and the
\* empty array being no item at all).
Produced == UNION {[1..n -> BOOLEAN] : n \in 0..MaxBuilt}

Activities ==
  {[handler |-> "none", produced |-> <<>>],
   [handler |-> "throws", produced |-> <<>>]}
    \cup {[handler |-> "returns", produced |-> p] : p \in Produced}

\* The lesson documents, an activity being given by what its builder
\* makes of it
Documents == UNION {[1..n -> Activities] : n \in 0..MaxActivities}

\* The descriptor of slide k of activity a; it has neither an instruction
\* clip nor a trigger.
BuiltSlide(a, k) ==
  [audio |-> FALSE, auto |-> FALSE, activity |-> a, item |-> k,
   placeholder |-> FALSE]

\* createUnsupportedActivitySlide for activity a
createUnsupportedActivitySlide(a) ==
  [audio |-> FALSE, auto |-> FALSE, activity |-> a, item |-> 0,
   placeholder |-> TRUE]

\* The items of produced, from k on, that are slide descriptors
RECURSIVE slideObjects(_, _, _)
slideObjects(a, produced, k) ==
  IF k > Len(produced) THEN <<>>
  ELSE (IF produced[k] THEN <<BuiltSlide(a, k)>> ELSE <<>>)
         \o slideObjects(a, produced, k + 1)

\* finalSlides of activity a: the slides of its builder, or one
\* placeholder when there is no builder or nothing usable
finalSlides(doc, a) ==
  LET objects == IF doc[a].handler = "returns"
                   THEN slideObjects(a, doc[a].produced, 1) ELSE <<>>
  IN IF objects # <<>> THEN objects
     ELSE <<createUnsupportedActivitySlide(a)>>

\* buildLessonSlides(lessonData) from activity a on, built being the
\* slides of the activities before a: the call of a builder is not in a
\* try block, so a builder that throws ends the build.
RECURSIVE buildLessonSlides(_, _, _)
buildLessonSlides(doc, a, built) ==
  IF a > Len(doc) THEN [threw |-> FALSE, slides |-> built]
  ELSE IF doc[a].handler = "throws" THEN [threw |-> TRUE, slides |-> <<>>]
  ELSE buildLessonSlides(doc, a + 1, built \o finalSlides(doc, a))

BuildInit ==
  /\ pc = "loading"
  /\ lms = InitLms("missing", "", <<>>, EmptySuspend)
  /\ scormState = InitScormState
  /\ slides = <<>>
  /\ currentSlideIndex = 0
  /\ navigationAttached = FALSE
  /\ content \in Documents
  /\ navButtons = InitButtons
  /\ lateRejection = FALSE
  /\ isActive = {}
  /\ entered = {}
  /\ slideState = <<>>
  /\ instructionPlayback = NoController
  /\ staleTimers = 0
  /\ completionWrites = 0
  /\ lastCall = Call("load", 0, FALSE)
  /\ events = <<>>
  /\ lmsLog = <<>>
  /\ playback = InitPlayback
  /\ sequence = InitSequence("runSequence")

\* init() on the document fetched: the exception of a builder is caught
\* by init(), which then shows the error state.
BuildLesson ==
  \E b \in {buildLessonSlides(content, 1, <<>>)} :
    IF b.threw THEN InitLessonFails
    ELSE RunInit({b.slides}, {0}, {<<0, 0>>})

BuildNext ==
  \/ BuildLesson
  \/ NextSlide
  \/ PreviousSlide

BuildSpec == BuildInit /\ [][BuildNext]_vars

\* The slides of activity a when a failure of its build is isolated: its
\* usable slides, else one placeholder
IsolatedSlides(doc, a) ==
  IF doc[a].handler = "throws" THEN <<createUnsupportedActivitySlide(a)>>
  ELSE finalSlides(doc, a)

\* The slides of the activities a, a + 1, ... of the document
RECURSIVE IsolatedLesson(_, _)
IsolatedLesson(doc, a) ==
  IF a > Len(doc) THEN <<>>
  ELSE IsolatedSlides(doc, a) \o IsolatedLesson(doc, a + 1)

\* C35: a failure of the build of one activity (no builder, nothing
\* usable returned, or a builder that fails on its content) is isolated:
\* the activity gives exactly one placeholder slide, and the slides of the
\* other activities are rendered, in order, and can be navigated.
C35_BuildFailureIsolated ==
  pc = "ready"
    => /\ slides = IsolatedLesson(content, 1)
       /\ slides # <<>> => navigationAttached /\ currentSlideIndex \in isActive

\* ------------------------------------------------------- the ids of slides
\* Largest activity number of a lesson.
MaxNumber == 2

\* A slide id is the sequence of the parts a "-" separates.  The activity
\* number extractActivityNumber gives a builder is a string of digits, or
\* "" for null; the letter of a sub-activity is "" when there is none.
NumberTokens == {ToString(k) : k \in 1..MaxNumber}
LetterTokens == {"a", "b", "c", "d", "e"}

\* The roles the builders write into their ids: the slides of the two
\* versions of buildSbsSlides, of buildPronunciationSlides and of
\* buildActivityTwoSlides
BuilderRoles ==
  {<<"model">>, <<"listening">>, <<"listen", "repeat">>, <<"reading">>,
   <<"speaking">>, <<"warmup">>,
   <<"words", "listen">>, <<"words", "repeat">>, <<"sentences", "listen">>,
   <<"sentences", "repeat">>, <<"sentences", "read">>,
   <<"activity2", "listen">>, <<"activity2", "repeat">>,
   <<"activity2", "match">>}

\* The id a builder gives its slide:
\* activityNumber ? `activity-${activityNumber}${suffixSegment}-role`
\*                : 'activity-role'
slideId(activityNumber, letter, role) ==
  IF activityNumber = "" THEN <<"activity">> \o role
  ELSE <<"activity", activityNumber>>
         \o (IF letter = "" THEN <<>> ELSE <<letter>>) \o role

\* The roles of the regular expressions of parseActivitySlideId
ParserRoles ==
  {<<"model">>, <<"pre", "listening">>, <<"listening">>,
   <<"listen", "repeat">>, <<"reading">>, <<"speaking">>}

\* letterMap[role] || ""
letterMap(role) ==
  CASE role = <<"pre", "listening">> -> "a"
    [] role = <<"listening">> -> "b"
    [] role = <<"listen", "repeat">> -> "c"
    [] role = <<"reading">> -> "d"
    [] role = <<"speaking">> -> "e"
    [] OTHER -> ""

\* The result of parseActivitySlideId when no expression matches: null,
\* of which the caller reads role and letter as undefined.
NoSlideInfo ==
  [found |-> FALSE, activityNumber |-> "", role |-> <<>>, letter |-> ""]

\* parseActivitySlideId(slideId): detailedMatch with and without letter,
\* then simpleMatch
parseActivitySlideId(id) ==
  LET rest(k) == SubSeq(id, k, Len(id))
  IN IF Len(id) >= 4 /\ id[1] = "activity" /\ id[2] \in NumberTokens
          /\ id[3] \in LetterTokens /\ rest(4) \in ParserRoles
       THEN [found |-> TRUE, activityNumber |-> id[2], role |-> rest(4),
             letter |-> id[3]]
     ELSE IF Len(id) >= 3 /\ id[1] = "activity" /\ id[2] \in NumberTokens
             /\ rest(3) \in ParserRoles
       THEN [found |-> TRUE, activityNumber |-> id[2], role |-> rest(3),
             letter |-> letterMap(rest(3))]
     ELSE IF Len(id) >= 2 /\ id[1] = "activity" /\ rest(2) \in ParserRoles
       THEN [found |-> TRUE, activityNumber |-> "", role |-> rest(2),
             letter |-> letterMap(rest(2))]
     ELSE NoSlideInfo

IdInit ==
  /\ pc = "ids"
  /\ lms = InitLms("missing", "", <<>>, EmptySuspend)
  /\ scormState = InitScormState
  /\ slides = <<>>
  /\ currentSlideIndex = 0
  /\ navigationAttached = FALSE
  /\ content = <<>>
  /\ navButtons = InitButtons
  /\ lateRejection = FALSE
  /\ isActive = {}
  /\ entered = {}
  /\ slideState = <<>>
  /\ instructionPlayback = NoController
  /\ staleTimers = 0
  /\ completionWrites = 0
  /\ lastCall = Call("load", 0, FALSE)
  /\ events = <<>>
  /\ lmsLog = <<>>
  /\ playback = InitPlayback
  /\ sequence = InitSequence("runSequence")

\* A builder makes a slide, and buildLessonSlides parses its id.
BuildSlideId ==
  \E number \in NumberTokens \cup {""}, letter \in LetterTokens \cup {""},
     role \in BuilderRoles :
    /\ pc = "ids"
    /\ \E id \in {slideId(number, letter, role)} :
         slides' = <<[audio |-> FALSE, auto |-> FALSE, id |-> id,
                      built |-> [activityNumber |-> number,
                                 letter |-> letter, role |-> role],
                      slideRoleInfo |-> parseActivitySlideId(id)]>>
    /\ lastCall' = Call("buildSlide", 0, FALSE)
    /\ UNCHANGED <<pc, lms, scormState, completionWrites, events, lmsLog,
                   content, currentSlideIndex, navigationAttached,
                   navButtons, lateRejection, isActive, entered, slideState,
                   instructionPlayback, staleTimers>>
    /\ UNCHANGED audioVars

IdSpec == IdInit /\ [][BuildSlideId]_vars

\* C36: the parser recognises the id of every slide a builder makes, and
\* the role and the letter it gives are those the builder wrote into the
\* id, the letter of an id without letter being that of the role.
C36_IdsRecognised ==
  \A k \in 1..Len(slides) :
    LET slide == slides[k]
    IN /\ slide.slideRoleInfo.found
       /\ slide.slideRoleInfo.role = slide.built.role
       /\ slide.built.activityNumber # "" /\ slide.built.letter # ""
            => slide.slideRoleInfo.letter = slide.built.letter

\* ------------------------------------- the listen and repeat practice
\* The slide of buildListenRepeatSlide (part_005), its entries having the
\* clip audioA only.  sequence is a record of kind "runPractice": status
\* is the await runPractice is at ("idle": no run; "awaitPlay": the clip
\* of entry idx; "awaitGap": the waitMs of its gap; "awaitTurn": the
\* waitMs that follow for the learner's turn and between two entries),
\* token the signal of runController (0: null), signal the signal of the
\* run, modals the number of calls of showCompletionModal.
InitPractice ==
  [kind |-> "runPractice", status |-> "idle", idx |-> 0, call |-> 0,
   token |-> 0, signal |-> 0, runs |-> 0, btnDisabled |-> FALSE,
   text |-> "", autoTriggered |-> FALSE, modals |-> 0]

\* The finally block of runPractice
practiceFinally(P) ==
  [P EXCEPT !.seq.status = "idle", !.seq.idx = 0, !.seq.call = 0,
            !.seq.signal = 0, !.seq.token = 0, !.seq.btnDisabled = FALSE,
            !.seq.text = "", !.seq.autoTriggered = FALSE]

\* The end of the try block of runPractice, reached when the loop has
\* gone through the entries and when it was left by break
practiceAfterLoop(P) ==
  practiceFinally([P EXCEPT !.seq.modals = @ + 1])

RECURSIVE practiceAt(_, _)

\* runPractice after the waits of the learner's turn: waitMs is resolved
\* by its timer or by the signal, and the loop goes to the next entry.
practiceAfterTurn(P) == practiceAt(P, P.seq.idx + 1)

\* runPractice after the gap of a clip
practiceAfterGap(P0) ==
  Bind([P0 EXCEPT !.seq.text = "Your turn..."], LAMBDA P :
    IF P.seq.signal \in P.pb.fired THEN practiceAfterTurn(P)
    ELSE [P EXCEPT !.seq.status = "awaitTurn"])

\* runPractice after the play() it awaited is settled: a rejection goes to
\* the catch block, else waitMs of the gap is awaited.
practiceAfterPlay(P0) ==
  Bind(P0, LAMBDA P :
    IF P.pb.calls[P.seq.call].state = "rejected" THEN practiceFinally(P)
    ELSE IF P.seq.signal \in P.pb.fired THEN practiceAfterGap(P)
    ELSE [P EXCEPT !.seq.status = "awaitGap"])

\* The for loop of runPractice at entry idx
practiceAt(P0, idx) ==
  Bind(P0, LAMBDA P :
    IF idx > MaxSegments \/ P.seq.signal \in P.pb.fired
      THEN practiceAfterLoop(P)
    ELSE Bind(play(P.pb, idx, P.seq.signal), LAMBDA pb :
           Bind([P EXCEPT !.pb = pb, !.seq.idx = idx,
                          !.seq.call = Len(pb.calls),
                          !.seq.status = "awaitPlay",
                          !.seq.text = "Listening..."],
             LAMBDA Q :
               IF Q.pb.calls[Q.seq.call].state # "pending"
                 THEN practiceAfterPlay(Q) ELSE Q)))

\* runPractice goes on if the promise of play() it awaits is settled.
practiceResume(P0) ==
  Bind(P0, LAMBDA P :
    IF P.seq.status = "awaitPlay"
         /\ P.pb.calls[P.seq.call].state # "pending"
      THEN practiceAfterPlay(P) ELSE P)

\* runPractice()
runPractice(P0) ==
  Bind(P0, LAMBDA P :
    LET r == P.seq.runs + 1
    IN practiceAt([P EXCEPT !.seq.runs = r, !.seq.token = r,
                            !.seq.signal = r, !.seq.btnDisabled = TRUE],
                  1))

\* triggerAutoPlay of the slide, which is the click handler of its button
\* as well
practiceTrigger(P) ==
  IF P.seq.autoTriggered THEN P
  ELSE runPractice([P EXCEPT !.seq.autoTriggered = TRUE])

\* onLeave of the slide; the aborted run goes on after it.
practiceOnLeave(P0) ==
  Bind(P0, LAMBDA P :
    Bind([P EXCEPT
            !.pb = stopAll(IF P.seq.token # 0 THEN abort(@, P.seq.token)
                           ELSE @),
            !.seq.token = 0, !.seq.text = "", !.seq.btnDisabled = FALSE,
            !.seq.autoTriggered = FALSE],
      LAMBDA Q :
        IF Q.seq.status = "awaitGap" THEN practiceAfterGap(Q)
        ELSE IF Q.seq.status = "awaitTurn" THEN practiceAfterTurn(Q)
        ELSE practiceResume(Q)))

PracticeInit ==
  /\ pc = "practice"
  /\ lms = InitLms("missing", "", <<>>, EmptySuspend)
  /\ scormState = InitScormState
  /\ slides = <<>>
  /\ currentSlideIndex = 0
  /\ navigationAttached = FALSE
  /\ content = <<>>
  /\ navButtons = InitButtons
  /\ lateRejection = FALSE
  /\ isActive = {}
  /\ entered = {}
  /\ slideState = <<>>
  /\ instructionPlayback = NoController
  /\ staleTimers = 0
  /\ completionWrites = 0
  /\ lastCall = Call("load", 0, FALSE)
  /\ events = <<>>
  /\ lmsLog = <<>>
  /\ playback = InitPlayback
  /\ sequence = InitPractice

\* A click on the button of the slide, or the gate calling its trigger
PracticeTrigger ==
  /\ pc = "practice"
  /\ ~sequence.autoTriggered
  /\ sequence.runs < MaxRuns
  /\ InstallAudio("runPractice", sequence.runs + 1, practiceTrigger(Player))

\* The slide is left.
PracticeLeave ==
  /\ pc = "practice"
  /\ InstallAudio("onLeave", sequence.idx, practiceOnLeave(Player))

\* The timer of the waitMs the run awaits fires.
PracticeWaitElapsed ==
  /\ pc = "practice"
  /\ sequence.status \in {"awaitGap", "awaitTurn"}
  /\ InstallAudio("waitMs", sequence.idx,
       IF sequence.status = "awaitGap" THEN practiceAfterGap(Player)
       ELSE practiceAfterTurn(Player))

\* The events of the clips
PracticeLoadedMetadata ==
  \E url \in Urls :
    /\ pc = "practice"
    /\ playback.cache[url].meta = "loading"
    /\ InstallAudio("loadedmetadata", url,
         practiceResume([Player EXCEPT !.pb = loadedmetadata(@, url)]))

PracticeLoadError ==
  \E url \in Urls :
    /\ pc = "practice"
    /\ playback.cache[url].meta = "loading"
    /\ InstallAudio("loadError", url,
         practiceResume([Player EXCEPT !.pb = errorEvent(@, url)]))

PracticeEnded ==
  \E url \in Urls :
    /\ pc = "practice"
    /\ playback.cache[url].playing
    /\ InstallAudio("ended", url,
         practiceResume([Player EXCEPT !.pb = endedEvent(@, url)]))

PracticePlaybackError ==
  \E url \in Urls :
    /\ pc = "practice"
    /\ playback.cache[url].playing
    /\ InstallAudio("playbackError", url,
         practiceResume([Player EXCEPT !.pb = errorEvent(@, url)]))

PracticeNext ==
  \/ PracticeTrigger
  \/ PracticeLeave
  \/ PracticeWaitElapsed
  \/ PracticeLoadedMetadata
  \/ PracticeLoadError
  \/ PracticeEnded
  \/ PracticePlaybackError

PracticeSpec == PracticeInit /\ [][PracticeNext]_vars

\* C37: cancelling a run of the listen and repeat practice stops the
\* audio and clears the timers and does nothing else: the completion
\* modal is shown only by a run that went through all its entries and was
\* not cancelled, and never by the step that leaves the slide.
C37_ModalOnlyOnCompletion ==
  [][sequence'.modals # sequence.modals
       => /\ lastCall'.op # "onLeave"
          /\ sequence.signal \notin playback'.fired
          /\ sequence.idx = MaxSegments]_vars

\* ---------------------------------------------------------------------
\* Late events of a gate session that was torn down

\* The lesson player on a page whose event loop may run the rejection of a
\* paused play() after later events of the learner.
LateInit ==
  /\ pc = "loading"
  /\ lms \in InitStores
  /\ scormState = InitScormState
  /\ slides = <<>>
  /\ currentSlideIndex = 0
  /\ navigationAttached = FALSE
  /\ content = <<>>
  /\ navButtons = InitButtons
  /\ lateRejection = TRUE
  /\ isActive = {}
  /\ entered = {}
  /\ slideState = <<>>
  /\ instructionPlayback = NoController
  /\ staleTimers = 0
  /\ completionWrites = 0
  /\ lastCall = Call("load", 0, FALSE)
  /\ events = <<>>
  /\ lmsLog = <<>>
  /\ playback = InitPlayback
  /\ sequence = InitSequence("runSequence")

\* play() of the clip of a session that was torn down while the clip was
\* loading is rejected (pause() rejects the pending promise in a task of
\* its own), and the catch handler of the session runs onEnded.
LatePlayRejected ==
  \E i \in 0..(Len(slides) - 1) :
    /\ pc = "ready"
    /\ slideState[i + 1].pendingPlay
    /\ InstallGate("latePlay", i,
         lateOnEnded(slides, i, [Gate EXCEPT !.ss[i + 1].pendingPlay = FALSE]))

LateNext ==
  \/ Next
  \/ LatePlayRejected

LateSpec == LateInit /\ [][LateNext]_vars

\* The part of a slide's state a gate session owns
GateView(ss) ==
  [k \in DOMAIN ss |->
     [instructionComplete |-> ss[k].instructionComplete,
      autoTriggered |-> ss[k].autoTriggered,
      btnDisabled |-> ss[k].btnDisabled]]

\* C38: the rejection of play() of a gate session that was torn down
\* changes nothing of a session that began after it: the controller in
\* course, the completion flag, the auto-start flag and the start button
\* of every slide are what they were, also when the session in course is a
\* later session of the same slide.
C38_LateEventHarmless ==
  [][lastCall'.op = "latePlay"
       => /\ instructionPlayback' = instructionPlayback
          /\ GateView(slideState') = GateView(slideState)]_vars

\* ---------------------------------------------------------------------
\* The LMS session after the exit

\* C39: once flushAndDisconnect has called quit() and the LMS has ended
\* the session, the adapter calls neither set nor save on it again,
\* whatever is recorded afterwards.
C39_SilentAfterQuit ==
  [][lms.terminated
       => \A k \in 1..Len(lmsLog') : lmsLog'[k].op \notin {"set", "save"}]_vars

====
